---- MODULE Spec2Model ----
(***************************************************************************)
(* Model of the threshold / anomaly-detection engine of loonie_reporting   *)
(* and of the history store behind it:                                     *)
(*   sql_operations/thresholds.py  (evaluate_thresholds_for_window)        *)
(*   scripts/controller.py         (get_thresholds, threshold_mode)        *)
(*   sql_operations/normalize.py   (append_history_rows,                   *)
(*                                  apply_history_retention,               *)
(*                                  build_windowed_serving_snapshot)       *)
(*   python/run_all.py             (main: append, retention, snapshot)     *)
(*                                                                         *)
(* Numbers.  The code computes in float64.  The model computes with exact  *)
(* reals over integer daily values:                                        *)
(*   - a rolling value is an integer numerator xn over the common          *)
(*     denominator Scale(value_type, window_days);                         *)
(*   - a rational is a record [n, d] with d > 0;                           *)
(*   - a bound r_mean -/+ k*r_std is a quadratic surd [a, b, v, d],        *)
(*     standing for (a + b*sqrt(v)) / d, and every comparison against it   *)
(*     is decided exactly by squaring.                                     *)
(* Float rounding is therefore not modelled.                               *)
(*                                                                         *)
(* Optional values (Python None / missing dict key / NaN) are <<>> and a   *)
(* present value v is <<v>>.                                               *)
(***************************************************************************)
EXTENDS Integers, Sequences, FiniteSets, TLC

VARIABLES
    \* the evaluator: the series it is called with and what it returned
    daily_df, result,
    \* one refresh run (python/run_all.py): the history file, the monthly
    \* archive files, the snapshot file, and the run's position and locals
    history_csv, archive_files, serving_output, pc, rows, history_df, args,
    \* the number of refresh runs started so far
    runs,
    \* a retention pass taken write by write: the rows it keeps and the rows
    \* it has still to archive
    keep_rows, archive_rows,
    \* two refresh runs on one history file: the position and locals of each
    refresh

evalVars == <<daily_df, result>>

stepVars == <<keep_rows, archive_rows, refresh>>

storeVars == <<history_csv, archive_files, serving_output, pc, rows, history_df, args, runs, keep_rows, archive_rows, refresh>>

vars == <<daily_df, result, history_csv, archive_files, serving_output, pc, rows, history_df, args, runs, keep_rows, archive_rows, refresh>>

None == <<>>

Some(v) == <<v>>

IsNone(o) == Len(o) = 0

NotNone(o) == Len(o) = 1

Val(o) == o[1]

Abs(x) == IF x < 0 THEN -x ELSE x

Min(a, b) == IF a <= b THEN a ELSE b

Max(a, b) == IF a >= b THEN a ELSE b

Rat(n, d) == [n |-> n, d |-> d]

\* (a + b*sqrt(v)) / d, d > 0, v >= 0
Surd(a, b, v, d) == [a |-> a, b |-> b, v |-> v, d |-> d]

\* c <= B*sqrt(v), decided exactly
LeSqrt(c, B, v) ==
    IF B >= 0 THEN c <= 0 \/ c * c <= B * B * v
              ELSE c <= 0 /\ c * c >= B * B * v

\* xn/sc <= (a + b*sqrt(v))/d
LeSurd(xn, sc, s) == LeSqrt(xn * s.d - sc * s.a, sc * s.b, s.v)

\* xn/sc >= (a + b*sqrt(v))/d
GeSurd(xn, sc, s) == LeSqrt(sc * s.a - xn * s.d, -(sc * s.b), s.v)

\* |n/d| >= lim.n/lim.d   (d # 0)
AbsRatGe(n, d, lim) == Abs(n) * lim.d >= lim.n * Abs(d)

\* |num/sqrt(v)| >= lim.n/lim.d   (v > 0, lim >= 0)
AbsZGe(num, v, lim) == num * num * lim.d * lim.d >= lim.n * lim.n * v

RECURSIVE Factorial(_)
Factorial(n) == IF n <= 1 THEN 1 ELSE n * Factorial(n - 1)

RECURSIVE SumSeq(_)
SumSeq(s) == IF Len(s) = 0 THEN 0 ELSE Head(s) + SumSeq(Tail(s))

RECURSIVE SumSqSeq(_)
SumSqSeq(s) == IF Len(s) = 0 THEN 0 ELSE Head(s) * Head(s) + SumSqSeq(Tail(s))

\* the last n entries of s (all of s when it is shorter)
LastN(s, n) == SubSeq(s, Max(1, Len(s) - n + 1), Len(s))

(***************************************************************************)
(* Calendar.  A parsed date is the number of days since 1970-01-01.        *)
(***************************************************************************)
\* plausible slip: the Sunday = 0 convention
DayOfWeekSundayZero(date) == (date + 4) % 7

\* pandas Timestamp.dayofweek, Monday = 0 (1970-01-01 is a Thursday)
DayOfWeek(date) == (date + 3) % 7

\* strftime("%m-%d"): <<month, day>> of the proleptic Gregorian calendar
MonthDay(date) ==
    LET z   == date + 719468
        era == z \div 146097
        doe == z - era * 146097
        yoe == (doe - (doe \div 1460) + (doe \div 36524) - (doe \div 146096)) \div 365
        doy == doe - (365 * yoe + (yoe \div 4) - (yoe \div 100))
        mp  == (5 * doy + 2) \div 153
        d   == doy - ((153 * mp + 2) \div 5) + 1
        m   == IF mp < 10 THEN mp + 3 ELSE mp - 9
    IN  <<m, d>>

\* strftime("%Y_%m"): <<year, month>>
YearMonth(date) ==
    LET z   == date + 719468
        era == z \div 146097
        doe == z - era * 146097
        yoe == (doe - (doe \div 1460) + (doe \div 36524) - (doe \div 146096)) \div 365
        doy == doe - (365 * yoe + (yoe \div 4) - (yoe \div 100))
        mp  == (5 * doy + 2) \div 153
        m   == IF mp < 10 THEN mp + 3 ELSE mp - 9
        y   == yoe + era * 400 + (IF m <= 2 THEN 1 ELSE 0)
    IN  <<y, m>>

(***************************************************************************)
(* Strings.  TLC strings are atomic, so str.lower(), str.strip().lower()   *)
(* and str.strip().upper() are tabulated on the raw strings the            *)
(* configurations of this model use; any other string maps to itself.      *)
(***************************************************************************)
Lower(s) ==
    CASE s = "Dynamic"  -> "dynamic"
      [] s = " Static " -> " static "
      [] OTHER          -> s

StripLower(s) ==
    CASE s = "Lower_Only " -> "lower_only"
      [] s = " SUN "       -> "sun"
      [] s = "Friday"      -> "friday"
      [] OTHER             -> s

StripUpper(s) ==
    CASE s = "l"   -> "L"
      [] s = " u " -> "U"
      [] s = "z"   -> "Z"
      [] s = "p"   -> "P"
      [] OTHER     -> s

(***************************************************************************)
(* Configuration (config/config.yaml, read by scripts/controller.py).      *)
(* thresholds = [mode, policy, dynamic, static]; a missing key is None.    *)
(***************************************************************************)
\* an item of a YAML list: an int or a string
IntItem(n) == [t |-> "int", v |-> n]

StrItem(x) == [t |-> "str", v |-> x]

NoDynamic ==
    [direction |-> None, k |-> None, window |-> None, z_score_lim |-> None,
     percent_drop |-> None, min_history_points |-> None,
     min_seasonal_points |-> None, exclude_weekdays |-> None,
     signals_enabled |-> None]

NoStatic == [direction |-> None, lower_threshold |-> None, upper_threshold |-> None]

Policy(y, r) == [yellow_if_signal_count_gte |-> y, red_if_signal_count_gte |-> r]

\* the thresholds block of an alert key that has none: {}
NoThresholds == [mode |-> None, policy |-> None, dynamic |-> None, static |-> None]

Dynamic(dyn) == [NoThresholds EXCEPT !.mode = Some("dynamic"), !.dynamic = Some(dyn)]

Static(st) == [NoThresholds EXCEPT !.mode = Some("static"), !.static = Some(st)]

\* dynamic block shared by the small-window metrics
DynSmall ==
    [NoDynamic EXCEPT !.window = Some(2), !.min_history_points = Some(2),
                      !.min_seasonal_points = Some(2)]

\* cfg["alerts"][key]["thresholds"] for every configured alert key
ConfigYaml ==
    [ scenario |->
        Dynamic([NoDynamic EXCEPT !.window = Some(5), !.k = Some(Rat(1, 1)),
                                  !.min_history_points = Some(5)]),
      dyn_defaults |-> Dynamic(NoDynamic),
      dyn_small |-> Dynamic(DynSmall),
      dyn_excl_sun |-> Dynamic([DynSmall EXCEPT !.exclude_weekdays = Some(<<StrItem(" SUN ")>>)]),
      dyn_excl_mix |->
        [Dynamic([DynSmall EXCEPT !.exclude_weekdays = Some(<<IntItem(3), StrItem("Friday"), IntItem(7), StrItem("holiday")>>),
                                  !.k = Some(Rat(2, 1)),
                                  !.percent_drop = Some(Rat(5, 4))])
           EXCEPT !.policy = Some(Policy(Some(1), Some(2)))],
      dyn_short_history |->
        Dynamic([NoDynamic EXCEPT !.window = Some(3), !.min_history_points = Some(2),
                                  !.k = Some(Rat(1, 2)),
                                  !.min_seasonal_points = Some(1),
                                  !.z_score_lim = Some(Rat(1, 1))]),
      dyn_lower_zp |->
        [Dynamic([DynSmall EXCEPT !.direction = Some("Lower_Only "),
                                  !.signals_enabled = Some(<<"l", "z", "P">>),
                                  !.z_score_lim = Some(Rat(1, 1)),
                                  !.percent_drop = Some(Rat(1, 4))])
           EXCEPT !.mode = Some("Dynamic"),
                  !.policy = Some(Policy(Some(2), Some(3)))],
      dyn_upper |->
        [Dynamic([DynSmall EXCEPT !.direction = Some("upper_only"),
                                  !.signals_enabled = Some(<<" u ", "P">>)])
           EXCEPT !.policy = Some(Policy(None, Some(1)))],
      static_lower |->
        Static([NoStatic EXCEPT !.lower_threshold = Some(100),
                                !.direction = Some("lower_only")]),
      static_both |->
        [Static([NoStatic EXCEPT !.lower_threshold = Some(40),
                                 !.upper_threshold = Some(90)])
           EXCEPT !.policy = Some(Policy(None, None))],
      static_policy |->
        [Static([NoStatic EXCEPT !.lower_threshold = Some(50),
                                 !.upper_threshold = Some(50),
                                 !.direction = Some("sideways")])
           EXCEPT !.policy = Some(Policy(Some(1), Some(2)))],
      static_excl |->
        [Static([NoStatic EXCEPT !.upper_threshold = Some(50),
                                 !.direction = Some("upper_only")])
           EXCEPT !.mode = Some(" Static "),
                  !.dynamic = Some([NoDynamic EXCEPT !.exclude_weekdays = Some(<<StrItem("fri"), IntItem(6)>>)])]
    ]

ConfiguredKeys == DOMAIN ConfigYaml

\* metric keys the evaluator is called with; "unconfigured" has no entry
MetricKeys == ConfiguredKeys \cup {"unconfigured"}

get_thresholds(alert_key) ==
    IF alert_key \in ConfiguredKeys THEN ConfigYaml[alert_key] ELSE NoThresholds

\* plausible slip: a metric without a configured mode is taken as dynamic
ThresholdModeDynamicDefault(alert_key, default) ==
    LET mode == get_thresholds(alert_key).mode
    IN  IF NotNone(mode) THEN Val(mode) ELSE "dynamic"

threshold_mode(alert_key, default) ==
    LET mode == get_thresholds(alert_key).mode
    IN  IF NotNone(mode) THEN Val(mode) ELSE default

(***************************************************************************)
(* sql_operations/thresholds.py                                            *)
(***************************************************************************)
DefaultYellowAt == 1

DefaultRedAt == 2

DefaultRollingWindow == 30

DefaultMinHistoryFloor == 10

DefaultMinSeasonalPoints == 5

DefaultK == Rat(1, 1)

DefaultZScoreLim == Rat(2, 1)

DefaultPercentDrop == Rat(1, 2)

\* _safe_float(x) or default: a missing value and a zero both give the default
SafeFloatOr(x, default) ==
    IF IsNone(x) \/ Val(x).n = 0 THEN default ELSE Val(x)

\* dict.get(key, default) on an optional entry
GetOr(x, default) == IF NotNone(x) THEN Val(x) ELSE default

_direction_allows(direction, signal) ==
    LET d == StripLower(direction)
    IN  CASE d = "both"       -> signal \in {"L", "U"}
          [] d = "lower_only" -> signal = "L"
          [] d = "upper_only" -> signal = "U"
          [] OTHER            -> signal \in {"L", "U"}

\* policy or {}: None and the empty dict are both falsy
PolicyIsFalsy(policy) ==
    \/ IsNone(policy)
    \/ /\ IsNone(Val(policy).yellow_if_signal_count_gte)
       /\ IsNone(Val(policy).red_if_signal_count_gte)

\* plausible slip: strict comparisons against the policy thresholds
StatusStrictComparison(signal_count, policy) ==
    LET cfg       == IF PolicyIsFalsy(policy) THEN Policy(None, None) ELSE Val(policy)
        yellow_at == GetOr(cfg.yellow_if_signal_count_gte, DefaultYellowAt)
        red_at    == GetOr(cfg.red_if_signal_count_gte, DefaultRedAt)
    IN  IF signal_count > red_at THEN "Red"
        ELSE IF signal_count > yellow_at THEN "Yellow"
        ELSE "Green"

_status_from_signal_count(signal_count, policy) ==
    LET cfg       == IF PolicyIsFalsy(policy) THEN Policy(None, None) ELSE Val(policy)
        yellow_at == GetOr(cfg.yellow_if_signal_count_gte, DefaultYellowAt)
        red_at    == GetOr(cfg.red_if_signal_count_gte, DefaultRedAt)
    IN  IF signal_count >= red_at THEN "Red"
        ELSE IF signal_count >= yellow_at THEN "Yellow"
        ELSE "Green"

WeekdayMapping(key) ==
    CASE key \in {"mon", "monday"}                  -> Some(0)
      [] key \in {"tue", "tues", "tuesday"}         -> Some(1)
      [] key \in {"wed", "wednesday"}               -> Some(2)
      [] key \in {"thu", "thur", "thurs", "thursday"} -> Some(3)
      [] key \in {"fri", "friday"}                  -> Some(4)
      [] key \in {"sat", "saturday"}                -> Some(5)
      [] key \in {"sun", "sunday"}                  -> Some(6)
      [] OTHER                                      -> None

\* plausible slip: weekday names are not recognised, only indices
ParseExcludedWeekdayIndices(raw) ==
    IF IsNone(raw) THEN {}
    ELSE LET items == Val(raw)
             Parsed(item) ==
                 IF item.t = "int" /\ 0 <= item.v /\ item.v <= 6 THEN {item.v} ELSE {}
         IN  UNION {Parsed(items[i]) : i \in 1..Len(items)}

\* raw is dyn_cfg.get("exclude_weekdays"): None or a list of items
_parse_excluded_weekdays(raw) ==
    IF IsNone(raw) THEN {}
    ELSE LET items == Val(raw)
             Parsed(item) ==
                 IF item.t = "int"
                 THEN (IF 0 <= item.v /\ item.v <= 6 THEN {item.v} ELSE {})
                 ELSE (LET m == WeekdayMapping(StripLower(item.v))
                       IN  IF NotNone(m) THEN {Val(m)} ELSE {})
         IN  UNION {Parsed(items[i]) : i \in 1..Len(items)}

(***************************************************************************)
(* A row of daily_df is [as_of_date, value]; as_of_date is None when       *)
(* pd.to_datetime coerces it to NaT, value is None when pd.to_numeric      *)
(* coerces it to NaN.                                                      *)
(***************************************************************************)
Row(date, value) == [as_of_date |-> date, value |-> value]

\* df[df["as_of_date"].notna() & df["value"].notna()]
DropNa(df) == SelectSeq(df, LAMBDA r : NotNone(r.as_of_date) /\ NotNone(r.value))

RECURSIVE InsertByDate(_, _)
InsertByDate(sorted, r) ==
    IF Len(sorted) = 0 THEN <<r>>
    ELSE IF Val(sorted[Len(sorted)].as_of_date) <= Val(r.as_of_date)
         THEN Append(sorted, r)
         ELSE Append(InsertByDate(SubSeq(sorted, 1, Len(sorted) - 1), r),
                     sorted[Len(sorted)])

\* sort_values("as_of_date")
RECURSIVE SortByDate(_)
SortByDate(df) ==
    IF Len(df) = 0 THEN <<>>
    ELSE InsertByDate(SortByDate(SubSeq(df, 1, Len(df) - 1)), df[Len(df)])

\* an exclusion that never removes the latest row
ExcludeWeekdaysKeepLatest(df, excluded_weekdays) ==
    SelectSeq(df, LAMBDA r : \/ DayOfWeek(Val(r.as_of_date)) \notin excluded_weekdays
                             \/ r = df[Len(df)])

\* df[~df["as_of_date"].dt.dayofweek.isin(excluded_weekdays)]
ExcludeWeekdays(df, excluded_weekdays) ==
    SelectSeq(df, LAMBDA r : DayOfWeek(Val(r.as_of_date)) \notin excluded_weekdays)

\* common denominator of the rolling values of one call
Scale(value_type, window_days) ==
    IF Lower(value_type) = "count" THEN 1 ELSE Factorial(window_days)

\* df["value"].rolling(window=window_days, min_periods=1).sum() / .mean(),
\* indexed by as_of_date: entry i aggregates rows max(1, i-window_days+1)..i
RollingSeries(df, value_type, window_days) ==
    LET sc == Scale(value_type, window_days)
        Win(i) == [j \in 1..(i - Max(1, i - window_days + 1) + 1) |->
                      Val(df[Max(1, i - window_days + 1) + j - 1].value)]
        X(i) == IF Lower(value_type) = "count"
                THEN SumSeq(Win(i))
                ELSE SumSeq(Win(i)) * (sc \div Len(Win(i)))
    IN  [i \in 1..Len(df) |-> [as_of_date |-> Val(df[i].as_of_date), x |-> X(i)]]

XValues(x_series) == [i \in 1..Len(x_series) |-> x_series[i].x]

\* lines 136-140: x_t, x_prev and pct_change
PctChange(xs) ==
    LET x_t    == xs[Len(xs)]
        x_prev == IF Len(xs) >= 2 THEN Some(xs[Len(xs) - 1]) ELSE None
    IN  IF NotNone(x_prev) /\ Val(x_prev) # 0
        THEN Some(Rat(x_t - Val(x_prev), Val(x_prev)))
        ELSE None

NoBound ==
    [lower_threshold |-> None, upper_threshold |-> None, r_mean |-> None,
     r_std |-> None, rolling_points_used |-> 0]

\* plausible slip: sample standard deviation (ddof=1, divisor N-1)
RollingBoundSampleStd(xs, sc, k, rolling_window, min_history_points) ==
    IF Len(xs) >= min_history_points /\ rolling_window >= 2 /\ Len(xs) >= rolling_window
    THEN LET tail == LastN(xs, rolling_window)
             N    == rolling_window
             S    == SumSeq(tail)
             V    == N * SumSqSeq(tail) - S * S
             W    == V * N * (N - 1)
             D    == N * (N - 1) * sc
         IN  [lower_threshold |-> Some(Surd(S * (N - 1) * k.d, -(k.n), W, D * k.d)),
              upper_threshold |-> Some(Surd(S * (N - 1) * k.d, k.n, W, D * k.d)),
              r_mean |-> Some(Rat(S, N * sc)),
              r_std |-> Some(Surd(0, 1, W, D)),
              rolling_points_used |-> Min(Len(xs), rolling_window)]
    ELSE NoBound

\* plausible slip: min_periods=1, the bound taken over a partial window
RollingBoundPartialWindow(xs, sc, k, rolling_window, min_history_points) ==
    IF Len(xs) >= min_history_points /\ rolling_window >= 1 /\ Len(xs) >= 1
    THEN LET tail == LastN(xs, Min(Len(xs), rolling_window))
             N    == Len(tail)
             S    == SumSeq(tail)
             V    == N * SumSqSeq(tail) - S * S
         IN  [lower_threshold |-> Some(Surd(S * k.d, -(k.n), V, N * sc * k.d)),
              upper_threshold |-> Some(Surd(S * k.d, k.n, V, N * sc * k.d)),
              r_mean |-> Some(Rat(S, N * sc)),
              r_std |-> Some(Surd(0, 1, V, N * sc)),
              rolling_points_used |-> Min(Len(xs), rolling_window)]
    ELSE NoBound

\* lines 166-174: rolling(window=rolling_window, min_periods=rolling_window)
\* gives NaN unless the series holds a full window of rolling_window entries
RollingBound(xs, sc, k, rolling_window, min_history_points) ==
    IF Len(xs) >= min_history_points /\ rolling_window >= 1 /\ Len(xs) >= rolling_window
    THEN LET tail == LastN(xs, rolling_window)
             N    == rolling_window
             S    == SumSeq(tail)
             V    == N * SumSqSeq(tail) - S * S
         IN  [lower_threshold |-> Some(Surd(S * k.d, -(k.n), V, N * sc * k.d)),
              upper_threshold |-> Some(Surd(S * k.d, k.n, V, N * sc * k.d)),
              r_mean |-> Some(Rat(S, N * sc)),
              r_std |-> Some(Surd(0, 1, V, N * sc)),
              rolling_points_used |-> Min(Len(xs), rolling_window)]
    ELSE NoBound

\* plausible slip: the latest date itself is kept in the comparison set
SeasonalHistInclusive(x_series) ==
    LET latest_date == x_series[Len(x_series)].as_of_date
        md          == MonthDay(latest_date)
    IN  SelectSeq(x_series,
                  LAMBDA e : MonthDay(e.as_of_date) = md /\ e.as_of_date <= latest_date)

\* lines 177-180: same month-day as the latest date, strictly earlier
SeasonalHist(x_series) ==
    LET latest_date == x_series[Len(x_series)].as_of_date
        md          == MonthDay(latest_date)
    IN  SelectSeq(x_series,
                  LAMBDA e : MonthDay(e.as_of_date) = md /\ e.as_of_date < latest_date)

\* plausible slip: min_seasonal_points is not consulted
SeasonalZScoreAnyHistory(hist, x_t, min_seasonal_points) ==
    LET M == Len(hist)
        S == SumSeq(hist)
        V == M * SumSqSeq(hist) - S * S
    IN  IF M >= 1 /\ V # 0
        THEN Some([num |-> M * x_t - S, v |-> V])
        ELSE None

\* lines 182-186: (x_t - s_mean) / s_std as [num, v], standing for num/sqrt(v)
SeasonalZScore(hist, x_t, min_seasonal_points) ==
    LET M == Len(hist)
        S == SumSeq(hist)
        V == M * SumSqSeq(hist) - S * S
    IN  IF M >= min_seasonal_points /\ M >= 1 /\ V # 0
        THEN Some([num |-> M * x_t - S, v |-> V])
        ELSE None

\* plausible slip: P fires on drops only (pct_change <= -percent_drop)
DynamicSignalsDropOnly(x_t, sc, b, seasonal_zscore, pct_change, direction, signals_enabled, z_score_lim, percent_drop) ==
    LET L == IF /\ "L" \in signals_enabled /\ _direction_allows(direction, "L")
                /\ NotNone(b.lower_threshold)
                /\ LeSurd(x_t, sc, Val(b.lower_threshold))
             THEN <<"L">> ELSE <<>>
        U == IF /\ "U" \in signals_enabled /\ _direction_allows(direction, "U")
                /\ NotNone(b.upper_threshold)
                /\ GeSurd(x_t, sc, Val(b.upper_threshold))
             THEN <<"U">> ELSE <<>>
        Z == IF /\ "Z" \in signals_enabled /\ NotNone(seasonal_zscore)
                /\ AbsZGe(Val(seasonal_zscore).num, Val(seasonal_zscore).v, z_score_lim)
             THEN <<"Z">> ELSE <<>>
        P == IF /\ "P" \in signals_enabled /\ NotNone(pct_change)
                /\ Val(pct_change).n * Val(pct_change).d < 0
                /\ AbsRatGe(Val(pct_change).n, Val(pct_change).d, percent_drop)
             THEN <<"P">> ELSE <<>>
    IN  L \o U \o Z \o P

\* lines 188-197: the active signals, in the order L, U, Z, P
DynamicSignals(x_t, sc, b, seasonal_zscore, pct_change, direction, signals_enabled, z_score_lim, percent_drop) ==
    LET L == IF /\ "L" \in signals_enabled /\ _direction_allows(direction, "L")
                /\ NotNone(b.lower_threshold)
                /\ LeSurd(x_t, sc, Val(b.lower_threshold))
             THEN <<"L">> ELSE <<>>
        U == IF /\ "U" \in signals_enabled /\ _direction_allows(direction, "U")
                /\ NotNone(b.upper_threshold)
                /\ GeSurd(x_t, sc, Val(b.upper_threshold))
             THEN <<"U">> ELSE <<>>
        Z == IF /\ "Z" \in signals_enabled /\ NotNone(seasonal_zscore)
                /\ AbsZGe(Val(seasonal_zscore).num, Val(seasonal_zscore).v, z_score_lim)
             THEN <<"Z">> ELSE <<>>
        P == IF /\ "P" \in signals_enabled /\ NotNone(pct_change)
                /\ AbsRatGe(Val(pct_change).n, Val(pct_change).d, percent_drop)
             THEN <<"P">> ELSE <<>>
    IN  L \o U \o Z \o P

\* _safe_float(static_cfg.get(name)) as a bound
StaticBound(t) == IF NotNone(t) THEN Some(Surd(Val(t), 0, 0, 1)) ELSE None

\* plausible slip: strict comparisons against the static bounds
StaticSignalsStrict(x_t, sc, lower_threshold, upper_threshold, direction) ==
    LET L == IF /\ _direction_allows(direction, "L") /\ NotNone(lower_threshold)
                /\ ~GeSurd(x_t, sc, Val(lower_threshold))
             THEN <<"L">> ELSE <<>>
        U == IF /\ _direction_allows(direction, "U") /\ NotNone(upper_threshold)
                /\ ~LeSurd(x_t, sc, Val(upper_threshold))
             THEN <<"U">> ELSE <<>>
    IN  L \o U

\* lines 219-222
StaticSignals(x_t, sc, lower_threshold, upper_threshold, direction) ==
    LET L == IF /\ _direction_allows(direction, "L") /\ NotNone(lower_threshold)
                /\ LeSurd(x_t, sc, Val(lower_threshold))
             THEN <<"L">> ELSE <<>>
        U == IF /\ _direction_allows(direction, "U") /\ NotNone(upper_threshold)
                /\ GeSurd(x_t, sc, Val(upper_threshold))
             THEN <<"U">> ELSE <<>>
    IN  L \o U

(***************************************************************************)
(* The value returned by evaluate_thresholds_for_window: the ten fields of *)
(* ThresholdResult (signals is the list that "|".join renders), followed   *)
(* by the arguments and the locals of the call, kept under their source    *)
(* names so that properties can refer to them.                             *)
(***************************************************************************)
Returned(status, signals, where, weekday_filter_applied, metric_key, value_type, window_days) ==
    [status |-> status, lower_threshold |-> None, upper_threshold |-> None,
     pct_change |-> None, seasonal_zscore |-> None,
     signal_count |-> Len(signals), signals |-> signals,
     rolling_points_used |-> 0, seasonal_points_used |-> 0,
     weekday_filter_applied |-> weekday_filter_applied,
     \* arguments
     metric_key |-> metric_key, value_type |-> value_type, window_days |-> window_days,
     \* locals
     returned_at |-> where, mode |-> "", df |-> <<>>, x_series |-> <<>>,
     sc |-> 1, x_t |-> None, x_prev |-> None, r_mean |-> None, r_std |-> None,
     seasonal_hist |-> <<>>, excluded_weekdays |-> {}, policy |-> None,
     direction |-> "both", signals_enabled |-> {"L", "U", "Z", "P"},
     k |-> DefaultK, rolling_window |-> DefaultRollingWindow,
     z_score_lim |-> DefaultZScoreLim, percent_drop |-> DefaultPercentDrop,
     min_history_points |-> DefaultRollingWindow,
     min_seasonal_points |-> DefaultMinSeasonalPoints]

evaluate_thresholds_for_window(daily, metric_key, value_type, window_days) ==
    LET Ret(status, signals, where, wfa) ==
            Returned(status, signals, where, wfa, metric_key, value_type, window_days)
        clean      == SortByDate(DropNa(daily))
        thresholds == get_thresholds(metric_key)
        mode       == Lower(threshold_mode(metric_key, "static"))
        dyn_cfg    == GetOr(thresholds.dynamic, NoDynamic)
        excluded_weekdays      == _parse_excluded_weekdays(dyn_cfg.exclude_weekdays)
        weekday_filter_applied == excluded_weekdays # {}
        df == IF excluded_weekdays # {} THEN ExcludeWeekdays(clean, excluded_weekdays)
                                         ELSE clean
        sc         == Scale(value_type, window_days)
        x_series   == RollingSeries(df, value_type, window_days)
        xs         == XValues(x_series)
        x_t        == xs[Len(xs)]
        x_prev     == IF Len(xs) >= 2 THEN Some(xs[Len(xs) - 1]) ELSE None
        pct_change == PctChange(xs)
        policy     == thresholds.policy
        common     == [Ret("", <<>>, "", weekday_filter_applied)
                         EXCEPT !.mode = mode, !.df = df, !.x_series = x_series,
                                !.sc = sc, !.x_t = Some(x_t), !.x_prev = x_prev,
                                !.pct_change = pct_change, !.policy = policy,
                                !.excluded_weekdays = excluded_weekdays]
        \* ---- dynamic mode (lines 153-211)
        dyn        == dyn_cfg
        direction_d == GetOr(dyn.direction, "both")
        signals_enabled ==
            IF NotNone(dyn.signals_enabled)
            THEN {StripUpper(Val(dyn.signals_enabled)[i]) :
                      i \in 1..Len(Val(dyn.signals_enabled))}
            ELSE {"L", "U", "Z", "P"}
        k              == SafeFloatOr(dyn.k, DefaultK)
        rolling_window == GetOr(dyn.window, DefaultRollingWindow)
        z_score_lim    == SafeFloatOr(dyn.z_score_lim, DefaultZScoreLim)
        percent_drop   == SafeFloatOr(dyn.percent_drop, DefaultPercentDrop)
        min_history_points ==
            GetOr(dyn.min_history_points, Max(rolling_window, DefaultMinHistoryFloor))
        min_seasonal_points == GetOr(dyn.min_seasonal_points, DefaultMinSeasonalPoints)
        b              == RollingBound(xs, sc, k, rolling_window, min_history_points)
        seasonal_hist  == SeasonalHist(x_series)
        seasonal_zscore ==
            SeasonalZScore(XValues(seasonal_hist), x_t, min_seasonal_points)
        active_d == DynamicSignals(x_t, sc, b, seasonal_zscore, pct_change, direction_d,
                                   signals_enabled, z_score_lim, percent_drop)
        \* ---- static mode (lines 213-238)
        static_cfg  == GetOr(thresholds.static, NoStatic)
        direction_s == GetOr(static_cfg.direction, "both")
        lower_s     == StaticBound(static_cfg.lower_threshold)
        upper_s     == StaticBound(static_cfg.upper_threshold)
        active_s    == StaticSignals(x_t, sc, lower_s, upper_s, direction_s)
        static_policy == IF PolicyIsFalsy(policy) THEN Some(Policy(Some(1), Some(1)))
                                                  ELSE policy
    IN  IF Len(daily) = 0 THEN Ret("Yellow", <<>>, "empty_input", FALSE)
        ELSE IF Len(clean) = 0 THEN Ret("Yellow", <<>>, "empty_clean", FALSE)
        ELSE IF Len(df) = 0
        THEN [Ret("Yellow", <<>>, "empty_after_exclusion", TRUE)
                EXCEPT !.mode = mode, !.excluded_weekdays = excluded_weekdays]
        ELSE IF mode = "dynamic"
        THEN [common EXCEPT
                !.status = _status_from_signal_count(Len(active_d), policy),
                !.lower_threshold = b.lower_threshold,
                !.upper_threshold = b.upper_threshold,
                !.seasonal_zscore = seasonal_zscore,
                !.signal_count = Len(active_d), !.signals = active_d,
                !.rolling_points_used = b.rolling_points_used,
                !.seasonal_points_used = Len(seasonal_hist),
                !.returned_at = "dynamic",
                !.r_mean = b.r_mean, !.r_std = b.r_std,
                !.seasonal_hist = seasonal_hist, !.direction = direction_d,
                !.signals_enabled = signals_enabled, !.k = k,
                !.rolling_window = rolling_window, !.z_score_lim = z_score_lim,
                !.percent_drop = percent_drop,
                !.min_history_points = min_history_points,
                !.min_seasonal_points = min_seasonal_points]
        ELSE [common EXCEPT
                !.status = _status_from_signal_count(Len(active_s), static_policy),
                !.lower_threshold = lower_s, !.upper_threshold = upper_s,
                !.signal_count = Len(active_s), !.signals = active_s,
                !.returned_at = "static", !.direction = direction_s]

(***************************************************************************)
(* sql_operations/normalize.py.  A history row carries the columns the     *)
(* history operations read: the natural key, value and value_type          *)
(* (metric_label, source and refreshed_at are carried along untouched and  *)
(* are left out).  as_of_date is the day number of an ISO date string, or  *)
(* None for a string that is no date ("NaT").  A CSV file is None while it *)
(* does not exist, else the sequence of its rows.                          *)
(***************************************************************************)
\* lines 30-40
make_kpi_row(as_of_date, metric_key, value, window_days, value_type) ==
    [as_of_date |-> as_of_date, window_days |-> window_days, section |-> "sales",
     metric_key |-> metric_key, value |-> Some(value), value_type |-> value_type]

\* key_cols
NaturalKey(r) == <<r.as_of_date, r.window_days, r.section, r.metric_key>>

\* drop_duplicates(subset=key_cols, keep="last")
RECURSIVE drop_duplicates(_)
drop_duplicates(df) ==
    IF Len(df) = 0 THEN <<>>
    ELSE LET rest == Tail(df)
         IN  IF \E j \in 1..Len(rest) : NaturalKey(rest[j]) = NaturalKey(df[1])
             THEN drop_duplicates(rest)
             ELSE <<df[1]>> \o drop_duplicates(rest)

\* the strings of the model in Python's str order
StringOrder ==
    <<"dyn_defaults", "dyn_excl_mix", "dyn_excl_sun", "dyn_lower_zp",
      "dyn_short_history", "dyn_small", "dyn_upper", "sales", "scenario",
      "static_both", "static_excl", "static_lower", "static_policy",
      "unconfigured">>

StrRank(x) == CHOOSE i \in 1..Len(StringOrder) : StringOrder[i] = x

\* order of the as_of_date strings: ISO dates by day, "NaT" after every date
DateStrLt(a, b) ==
    IF IsNone(a) THEN FALSE ELSE IF IsNone(b) THEN TRUE ELSE Val(a) < Val(b)

\* r sorts strictly before q by (as_of_date, section, metric_key, window_days)
SortsBefore(r, q) ==
    \/ DateStrLt(r.as_of_date, q.as_of_date)
    \/ /\ r.as_of_date = q.as_of_date
       /\ \/ StrRank(r.section) < StrRank(q.section)
          \/ /\ r.section = q.section
             /\ \/ StrRank(r.metric_key) < StrRank(q.metric_key)
                \/ /\ r.metric_key = q.metric_key
                   /\ r.window_days < q.window_days

RECURSIVE InsertByKey(_, _)
InsertByKey(sorted, r) ==
    IF Len(sorted) = 0 THEN <<r>>
    ELSE IF ~SortsBefore(r, sorted[Len(sorted)])
         THEN Append(sorted, r)
         ELSE Append(InsertByKey(SubSeq(sorted, 1, Len(sorted) - 1), r),
                     sorted[Len(sorted)])

\* sort_values(by=["as_of_date", "section", "metric_key", "window_days"])
RECURSIVE sort_values(_)
sort_values(df) ==
    IF Len(df) = 0 THEN <<>>
    ELSE InsertByKey(sort_values(SubSeq(df, 1, Len(df) - 1)), df[Len(df)])

\* plausible slip: the new rows are put ahead of the stored ones, so that a
\* stored row wins over a new row with its key
AppendStoredRowsWin(history_file, new_df) ==
    IF Len(new_df) = 0
    THEN [history_csv |-> history_file, returned |-> <<>>]
    ELSE LET old_df == IF NotNone(history_file) THEN Val(history_file) ELSE <<>>
             all_df == sort_values(drop_duplicates(new_df \o old_df))
         IN  [history_csv |-> Some(all_df), returned |-> all_df]

\* plausible slip: a call without rows writes the empty frame it returns
\* an append that returns the stored history when there is nothing to append
AppendReturnsStoredRows(history_file, new_df) ==
    LET old_df == IF NotNone(history_file) THEN Val(history_file) ELSE <<>>
        all_df == sort_values(drop_duplicates(old_df \o new_df))
    IN  IF Len(new_df) = 0
        THEN [history_csv |-> history_file, returned |-> old_df]
        ELSE [history_csv |-> Some(all_df), returned |-> all_df]

AppendWritesEmpty(history_file, new_df) ==
    IF Len(new_df) = 0
    THEN [history_csv |-> Some(<<>>), returned |-> <<>>]
    ELSE LET old_df == IF NotNone(history_file) THEN Val(history_file) ELSE <<>>
             all_df == sort_values(drop_duplicates(old_df \o new_df))
         IN  [history_csv |-> Some(all_df), returned |-> all_df]

\* plausible slip: the rows are concatenated and sorted, duplicates stay
AppendWithoutDedup(history_file, new_df) ==
    IF Len(new_df) = 0
    THEN [history_csv |-> history_file, returned |-> <<>>]
    ELSE LET old_df == IF NotNone(history_file) THEN Val(history_file) ELSE <<>>
             all_df == sort_values(old_df \o new_df)
         IN  [history_csv |-> Some(all_df), returned |-> all_df]

\* plausible slip: the merged rows are written in the order of arrival
AppendWithoutSort(history_file, new_df) ==
    IF Len(new_df) = 0
    THEN [history_csv |-> history_file, returned |-> <<>>]
    ELSE LET old_df == IF NotNone(history_file) THEN Val(history_file) ELSE <<>>
             all_df == drop_duplicates(old_df \o new_df)
         IN  [history_csv |-> Some(all_df), returned |-> all_df]

\* lines 44-61: the file after the call and the frame returned
append_history_rows(history_file, new_df) ==
    IF Len(new_df) = 0
    THEN [history_csv |-> history_file, returned |-> <<>>]
    ELSE LET old_df == IF NotNone(history_file) THEN Val(history_file) ELSE <<>>
             all_df == sort_values(drop_duplicates(old_df \o new_df))
         IN  [history_csv |-> Some(all_df), returned |-> all_df]

\* rows whose as_of_date parses (as_of_date_dt.notna())
ParsedDates(df) == SelectSeq(df, LAMBDA r : NotNone(r.as_of_date))

MaxDate(df) ==
    CHOOSE d \in {Val(df[i].as_of_date) : i \in 1..Len(df)} :
        \A i \in 1..Len(df) : Val(df[i].as_of_date) <= d

\* plausible slip: every archived row goes to the partition of the month of
\* the first archived row
ArchiveIntoOneMonth(files, archive_df) ==
    LET ym     == YearMonth(Val(archive_df[1].as_of_date))
        merged == IF ym \in DOMAIN files
                  THEN drop_duplicates(files[ym] \o archive_df)
                  ELSE archive_df
    IN  [m \in (DOMAIN files) \cup {ym} |->
            IF m = ym THEN sort_values(merged) ELSE files[m]]

\* lines 255-268: the archive files after the rows of archive_df are merged
\* into the partition of their calendar month
ArchiveByMonth(files, archive_df) ==
    LET months == {YearMonth(Val(archive_df[i].as_of_date)) : i \in 1..Len(archive_df)}
        group(ym) == SelectSeq(archive_df, LAMBDA r : YearMonth(Val(r.as_of_date)) = ym)
        merged(ym) == IF ym \in DOMAIN files
                      THEN drop_duplicates(files[ym] \o group(ym))
                      ELSE group(ym)
    IN  [ym \in (DOMAIN files) \cup months |->
            IF ym \in months THEN sort_values(merged(ym)) ELSE files[ym]]

\* plausible slip: cutoff = max_date - retention_days, one day too early
RetentionCutoffOneDayEarly(df_in, history_file, files, retention_days, archive_dir) ==
    LET unchanged == [history_csv |-> history_file, archive_files |-> files,
                      returned |-> df_in]
        df         == ParsedDates(df_in)
        max_date   == MaxDate(df)
        cutoff     == max_date - retention_days
        keep_df    == SelectSeq(df, LAMBDA r : Val(r.as_of_date) >= cutoff)
        archive_df == SelectSeq(df, LAMBDA r : Val(r.as_of_date) < cutoff)
        keep_out   == sort_values(keep_df)
    IN  IF Len(df_in) = 0 \/ retention_days <= 0 THEN unchanged
        ELSE IF Len(df) = 0 THEN unchanged
        ELSE [history_csv |-> Some(keep_out),
              archive_files |-> IF archive_dir /\ Len(archive_df) > 0
                                THEN ArchiveByMonth(files, archive_df)
                                ELSE files,
              returned |-> keep_out]

\* lines 231-277: the history file and the archive files after the call and
\* the frame returned; archive_dir is FALSE for None
apply_history_retention(df_in, history_file, files, retention_days, archive_dir) ==
    LET unchanged == [history_csv |-> history_file, archive_files |-> files,
                      returned |-> df_in]
        df         == ParsedDates(df_in)
        max_date   == MaxDate(df)
        cutoff     == max_date - (retention_days - 1)
        keep_df    == SelectSeq(df, LAMBDA r : Val(r.as_of_date) >= cutoff)
        archive_df == SelectSeq(df, LAMBDA r : Val(r.as_of_date) < cutoff)
        keep_out   == sort_values(keep_df)
    IN  IF Len(df_in) = 0 \/ retention_days <= 0 THEN unchanged
        ELSE IF Len(df) = 0 THEN unchanged
        ELSE [history_csv |-> Some(keep_out),
              archive_files |-> IF archive_dir /\ Len(archive_df) > 0
                                THEN ArchiveByMonth(files, archive_df)
                                ELSE files,
              returned |-> keep_out]

\* lines 159-162: count -> to_numeric(value).fillna(0).sum(), otherwise
\* to_numeric(value).dropna().mean() (NaN, i.e. None, over no value)
WindowValue(subset, value_type) ==
    LET present == SelectSeq(subset, LAMBDA r : NotNone(r.value))
        total   == SumSeq([i \in 1..Len(present) |-> Val(present[i].value)])
    IN  IF value_type = "count" THEN Some(Rat(total, 1))
        ELSE IF Len(present) = 0 THEN None
        ELSE Some(Rat(total, Len(present)))

\* the ten fields of ThresholdResult
ThresholdResultFields ==
    {"status", "lower_threshold", "upper_threshold", "pct_change",
     "seasonal_zscore", "signal_count", "signals", "rolling_points_used",
     "seasonal_points_used", "weekday_filter_applied"}

\* plausible slip: the window is taken over the last rows of the group
\* instead of over calendar days
SnapshotRowOverLastRows(g, window) ==
    LET latest      == g[Len(g)]
        latest_date == Val(latest.as_of_date)
        value_type  == Lower(latest.value_type)
        subset      == LastN(g, window)
        threshold_result ==
            evaluate_thresholds_for_window(
                [i \in 1..Len(g) |-> Row(g[i].as_of_date, g[i].value)],
                latest.metric_key, value_type, window)
    IN  [as_of_date |-> latest_date, window_days |-> window,
         section |-> latest.section, metric_key |-> latest.metric_key,
         value |-> WindowValue(subset, value_type),
         value_type |-> latest.value_type,
         threshold_result |-> [f \in ThresholdResultFields |-> threshold_result[f]]]

\* lines 150-191: the snapshot row of one metric group and one window
SnapshotRow(g, window) ==
    LET latest      == g[Len(g)]
        latest_date == Val(latest.as_of_date)
        value_type  == Lower(latest.value_type)
        start_date  == latest_date - (window - 1)
        subset      == SelectSeq(g, LAMBDA r : Val(r.as_of_date) >= start_date)
        threshold_result ==
            evaluate_thresholds_for_window(
                [i \in 1..Len(g) |-> Row(g[i].as_of_date, g[i].value)],
                latest.metric_key, value_type, window)
    IN  [as_of_date |-> latest_date, window_days |-> window,
         section |-> latest.section, metric_key |-> latest.metric_key,
         value |-> WindowValue(subset, value_type),
         value_type |-> latest.value_type,
         threshold_result |-> [f \in ThresholdResultFields |-> threshold_result[f]]]

\* q sorts strictly before r by (section, metric_key, window_days)
SnapshotSortsBefore(q, r) ==
    \/ StrRank(q.section) < StrRank(r.section)
    \/ /\ q.section = r.section
       /\ \/ StrRank(q.metric_key) < StrRank(r.metric_key)
          \/ q.metric_key = r.metric_key /\ q.window_days < r.window_days

\* the rows of a set as a sequence sorted by (section, metric_key, window_days)
RECURSIVE SortSnapshot(_)
SortSnapshot(S) ==
    IF S = {} THEN <<>>
    ELSE LET first == CHOOSE q \in S : \A r \in S \ {q} : SnapshotSortsBefore(q, r)
         IN  <<first>> \o SortSnapshot(S \ {first})

\* the snapshot with the rows of every grain taken as daily rows
SnapshotOverAllGrains(df_in, windows) ==
    LET df     == ParsedDates(df_in)
        groups == {<<df[i].section, df[i].metric_key>> : i \in 1..Len(df)}
        g(grp) == SortByDate(SelectSeq(df, LAMBDA r : <<r.section, r.metric_key>> = grp))
        out_rows ==
            {SnapshotRow(g(grp), windows[w]) :
                grp \in groups,
                w \in {i \in 1..Len(windows) : windows[i] >= 1}}
    IN  SortSnapshot(out_rows)

\* lines 82-228: the rows written to output_csv
build_windowed_serving_snapshot(df_in, windows) ==
    LET df     == SelectSeq(ParsedDates(df_in), LAMBDA r : r.window_days = 1)
        groups == {<<df[i].section, df[i].metric_key>> : i \in 1..Len(df)}
        g(grp) == SortByDate(SelectSeq(df, LAMBDA r : <<r.section, r.metric_key>> = grp))
        out_rows ==
            {SnapshotRow(g(grp), windows[w]) :
                grp \in groups,
                w \in {i \in 1..Len(windows) : windows[i] >= 1}}
    IN  SortSnapshot(out_rows)

(***************************************************************************)
(* State machine.  daily_df is the daily-grain series of one metric group  *)
(* (the argument of the next call); result is what the latest call on it   *)
(* returned.  Rows arrive in date order, one per date, as the history      *)
(* store keeps them.                                                       *)
(***************************************************************************)
MaxLen == 4

\* rows with an unparseable date or value that a series may start with
MaxBad == 2

\* 2022-02-25, a Friday
StartDate == 19048

Values == {0, 40, 50}

\* the next calendar day, or 365 days on (the same month-day unless a
\* leap day lies between)
Gaps == {1, 365}

Windows == {1, 2}

ValueTypes == {"count", "rate"}

\* the 5-day scenario series 10,10,10,10,50 on consecutive days
ScenarioSeries ==
    [i \in 1..5 |-> Row(Some(StartDate + i - 1), Some(IF i = 5 THEN 50 ELSE 10))]

\* the locals of a refresh run before its first step
NoArgs == [history_retention_days |-> 0, history_archive_dir |-> FALSE]

\* the refresh runs that may overlap
Refreshes == {1, 2}

\* the locals of a refresh run that has not started
Idle == [pc |-> "idle", new_df |-> <<>>, all_df |-> <<>>]

NoRefreshes == [p \in Refreshes |-> Idle]

\* no refresh has run: no history file, no archive file, no snapshot file
NoRefresh ==
    /\ history_csv = None /\ archive_files = <<>> /\ serving_output = None
    /\ pc = "append" /\ rows = <<>> /\ history_df = <<>> /\ args = NoArgs
    /\ runs = 0
    /\ keep_rows = <<>> /\ archive_rows = <<>>
    /\ refresh = NoRefreshes

Init ==
    /\ daily_df \in {<<>>, ScenarioSeries}
    /\ result = None
    /\ NoRefresh

\* lines 110-112: what errors="coerce" leaves of a row whose date, or whose
\* value, cannot be parsed
BadRows == {Row(None, Some(40)), Row(Some(StartDate), None)}

\* the series receives a row that cannot be parsed; the evaluator drops such
\* rows wherever they stand, so they are placed ahead of the parseable ones
AddBadRow ==
    /\ Len(daily_df) < MaxBad
    /\ Len(DropNa(daily_df)) = 0
    /\ \E row \in BadRows : daily_df' = Append(daily_df, row)
    /\ result' = None
    /\ UNCHANGED storeVars

\* a new daily observation is appended to the series
AddRow ==
    /\ Len(daily_df) < MaxLen
    /\ \E v \in Values :
         \E date \in (IF Len(DropNa(daily_df)) = 0 THEN {StartDate}
                      ELSE {Val(daily_df[Len(daily_df)].as_of_date) + g : g \in Gaps}) :
            daily_df' = Append(daily_df, Row(Some(date), Some(v)))
    /\ result' = None
    /\ UNCHANGED storeVars

\* one call of the evaluator on the current series
Evaluate ==
    /\ IsNone(result)
    /\ \E metric_key \in MetricKeys, value_type \in ValueTypes, window_days \in Windows :
         result' = Some(evaluate_thresholds_for_window(daily_df, metric_key,
                                                       value_type, window_days))
    /\ UNCHANGED daily_df
    /\ UNCHANGED storeVars

Next == AddRow \/ AddBadRow \/ Evaluate

Spec == Init /\ [][Next]_vars

(***************************************************************************)
(* State machine of the refresh run, python/run_all.py main(): rows are    *)
(* appended to the history file, retention is applied, the snapshot is     *)
(* rebuilt; then the next run starts.  pc is the step the run is at.       *)
(***************************************************************************)
\* number of consecutive days on which history rows are dated
MaxDays == 3

\* rows handed to one append
MaxBatch == 2

\* refresh runs
MaxRuns == 3

\* 2022-02-28 when StartDate is 2022-02-25: the days straddle a month end
HistoryDates == {StartDate + 3 + i : i \in 0..(MaxDays - 1)}

\* run_all.py line 168: the default of --history-retention-days
DefaultRetentionDays == 730

\* --history-retention-days after max(., 0)
RetentionDays == {0, 1, 2, DefaultRetentionDays, DefaultRetentionDays + 1}

\* --windows
SnapshotWindows == <<1, 2, 3>>

\* the rows a run may prepare: a count metric on every day, with a second
\* value on the last day; a rate metric on the first and the last day; a
\* row whose date is no date; a row of another grain
CountRow(d, v) == make_kpi_row(Some(d), "dyn_small", v, 1, "count")

RateRow(d) == make_kpi_row(Some(d), "static_both", 30 + 15 * (d - StartDate), 1, "rate")

LastDay == StartDate + 2 + MaxDays

\* a count metric with Sundays excluded, on the Friday, Saturday and Sunday
\* before the other rows
ExclRow(d, v) == make_kpi_row(Some(d), "dyn_excl_sun", v, 1, "count")

RowUniverse ==
    {CountRow(d, 10) : d \in HistoryDates}
    \cup {CountRow(LastDay, 20)}
    \cup {RateRow(StartDate + 3), RateRow(LastDay)}
    \cup {make_kpi_row(None, "dyn_small", 10, 1, "count"),
          make_kpi_row(Some(StartDate + 4), "dyn_small", 10, 7, "count")}

\* what one run appends: nothing, one row, or MaxBatch rows, these being
\* the two values of the last day in either order or two rows out of order;
\* or the first two days or the third day of the metric with Sundays
\* excluded; or the last day of the count metric one and two years before
Batches ==
    {<<>>} \cup {<<r>> : r \in RowUniverse}
    \cup {b \in [1..MaxBatch -> {CountRow(LastDay, 10), CountRow(LastDay, 20)}] :
              \A i \in 1..(MaxBatch - 1) : b[i] # b[i + 1]}
    \cup {[i \in 1..MaxBatch |->
              IF i = 1 THEN RateRow(LastDay) ELSE CountRow(StartDate + 3, 10)]}
    \cup {<<ExclRow(StartDate, 10), ExclRow(StartDate + 1, 20)>>,
          <<ExclRow(StartDate + 2, 50)>>}
    \cup {<<CountRow(LastDay - 730, 10), CountRow(LastDay - 365, 14)>>}

InitStore ==
    /\ daily_df = <<>> /\ result = None
    /\ NoRefresh

\* run_all.py line 204
AppendHistory ==
    /\ pc = "append"
    /\ runs < MaxRuns
    /\ runs' = runs + 1
    /\ \E batch \in Batches :
         LET r == append_history_rows(history_csv, batch)
         IN  /\ rows' = batch
             /\ history_csv' = r.history_csv
             /\ history_df' = r.returned
    /\ pc' = "retention"
    /\ UNCHANGED <<archive_files, serving_output, args>>
    /\ UNCHANGED evalVars
    /\ UNCHANGED stepVars

\* run_all.py lines 205-210; rows is not read again
ApplyRetention ==
    /\ pc = "retention"
    /\ \E retention_days \in RetentionDays, archive_dir \in BOOLEAN :
         LET r == apply_history_retention(history_df, history_csv, archive_files,
                                          retention_days, archive_dir)
         IN  /\ args' = [history_retention_days |-> retention_days,
                         history_archive_dir |-> archive_dir]
             /\ history_csv' = r.history_csv
             /\ archive_files' = r.archive_files
             /\ history_df' = r.returned
    /\ pc' = "snapshot"
    /\ rows' = <<>>
    /\ UNCHANGED <<serving_output, runs>>
    /\ UNCHANGED evalVars
    /\ UNCHANGED stepVars

\* a build that returns early on a history without daily rows and leaves the
\* serving file as it is
BuildSnapshotSkipsEmptyHistory ==
    /\ pc = "snapshot"
    /\ serving_output' =
          IF build_windowed_serving_snapshot(history_df, SnapshotWindows) = <<>>
             /\ NotNone(serving_output)
          THEN serving_output
          ELSE Some(build_windowed_serving_snapshot(history_df, SnapshotWindows))
    /\ pc' = "append"
    /\ args' = NoArgs
    /\ UNCHANGED <<history_csv, archive_files, rows, history_df, runs>>
    /\ UNCHANGED evalVars
    /\ UNCHANGED stepVars

\* run_all.py line 211, after which the run ends
BuildSnapshot ==
    /\ pc = "snapshot"
    /\ serving_output' = Some(build_windowed_serving_snapshot(history_df, SnapshotWindows))
    /\ pc' = "append"
    /\ args' = NoArgs
    /\ UNCHANGED <<history_csv, archive_files, rows, history_df, runs>>
    /\ UNCHANGED evalVars
    /\ UNCHANGED stepVars

NextStore == AppendHistory \/ ApplyRetention \/ BuildSnapshot

SpecStore == InitStore /\ [][NextStore]_vars

(***************************************************************************)
(* The retention pass of a refresh run taken write by write: every monthly *)
(* partition is one write (to_csv at line 270), the history file another   *)
(* (line 276), and the pass can be observed, or stopped, between them.     *)
(***************************************************************************)
\* normalize.py lines 241-253: the pass returns its input at once, or splits
\* the rows whose date parses at the cutoff
SplitRetention ==
    /\ pc = "retention"
    /\ \E retention_days \in RetentionDays, archive_dir \in BOOLEAN :
         LET df     == ParsedDates(history_df)
             cutoff == MaxDate(df) - (retention_days - 1)
         IN  /\ args' = [history_retention_days |-> retention_days,
                         history_archive_dir |-> archive_dir]
             /\ IF Len(history_df) = 0 \/ retention_days <= 0 \/ Len(df) = 0
                THEN /\ pc' = "snapshot"
                     /\ UNCHANGED <<keep_rows, archive_rows>>
                ELSE /\ keep_rows' = SelectSeq(df, LAMBDA r : Val(r.as_of_date) >= cutoff)
                     /\ archive_rows' =
                           IF archive_dir
                           THEN SelectSeq(df, LAMBDA r : Val(r.as_of_date) < cutoff)
                           ELSE <<>>
                     /\ pc' = "archive"
    /\ rows' = <<>>
    /\ UNCHANGED <<history_csv, archive_files, serving_output, history_df, runs, refresh>>
    /\ UNCHANGED evalVars

\* the month groupby("year_month") yields next: the earliest one pending
NextMonth ==
    YearMonth(CHOOSE d \in {Val(archive_rows[i].as_of_date) : i \in 1..Len(archive_rows)} :
                 \A i \in 1..Len(archive_rows) : d <= Val(archive_rows[i].as_of_date))

\* lines 258-270: one turn of the loop writes the partition of one month
WriteArchivePartition ==
    /\ pc = "archive" /\ Len(archive_rows) > 0
    /\ archive_files' =
          ArchiveByMonth(archive_files,
              SelectSeq(archive_rows, LAMBDA r : YearMonth(Val(r.as_of_date)) = NextMonth))
    /\ archive_rows' =
          SelectSeq(archive_rows, LAMBDA r : YearMonth(Val(r.as_of_date)) # NextMonth)
    /\ UNCHANGED <<history_csv, serving_output, pc, rows, history_df, args, runs>>
    /\ UNCHANGED <<keep_rows, refresh>>
    /\ UNCHANGED evalVars

\* a pass that rewrites the history file before the partitions are written
\* and then stops
RewriteHistoryBeforeArchive ==
    /\ pc = "archive"
    /\ history_csv' = Some(sort_values(keep_rows))
    /\ history_df' = sort_values(keep_rows)
    /\ keep_rows' = <<>> /\ archive_rows' = <<>>
    /\ pc' = "snapshot"
    /\ UNCHANGED <<archive_files, serving_output, rows, args, runs, refresh>>
    /\ UNCHANGED evalVars

\* lines 273-277: after the loop the kept rows are sorted and written to the
\* history file, and returned
RewriteHistory ==
    /\ pc = "archive" /\ Len(archive_rows) = 0
    /\ history_csv' = Some(sort_values(keep_rows))
    /\ history_df' = sort_values(keep_rows)
    /\ keep_rows' = <<>>
    /\ pc' = "snapshot"
    /\ UNCHANGED <<archive_files, serving_output, rows, args, runs, archive_rows, refresh>>
    /\ UNCHANGED evalVars

NextRetention ==
    AppendHistory \/ SplitRetention \/ WriteArchivePartition \/ RewriteHistory \/ BuildSnapshot

SpecRetention == InitStore /\ [][NextRetention]_vars

(***************************************************************************)
(* Two refresh runs on one history file (run with retention off, so the    *)
(* append is their only write).  append_history_rows reads the file (line  *)
(* 51) and later rewrites it in place with to_csv (line 60): open(path,    *)
(* "w") truncates the file, the buffered rows reach it at offset 0 when    *)
(* the handle is closed.  Nothing orders the two runs, so each of these is *)
(* a step of its own.  A file of zero bytes is Some(<<>>) here.            *)
(***************************************************************************)
\* rows whose CSV lines have the same number of bytes: a ten-character date,
\* one metric, a one-digit window and a two-digit value
SameLineLength(r) == NotNone(r.as_of_date) /\ r.metric_key = "dyn_small"

\* what an overlapping run appends
ConcurrentBatches ==
    {b \in Batches : \A i \in 1..Len(b) : SameLineLength(b[i])}

\* the rows of a file after `content` is written at offset 0 over `existing`
\* without truncation: what lies beyond the written bytes stays
WriteAtStart(existing, content) ==
    content \o SubSeq(existing, Len(content) + 1, Len(existing))

\* the rows read_csv finds in the history file, none when it does not exist
StoredRows == IF NotNone(history_csv) THEN Val(history_csv) ELSE <<>>

\* run_all.py lines 192-204 and normalize.py lines 46-48: a run prepares its
\* rows and calls append_history_rows, which returns at once on no rows
StartRefresh ==
    /\ runs < MaxRuns
    /\ \E p \in Refreshes, batch \in ConcurrentBatches :
         /\ refresh[p].pc \in {"idle", "done", "failed"}
         /\ refresh' = [refresh EXCEPT ![p] =
               [pc |-> IF Len(batch) = 0 THEN "done" ELSE "started",
                new_df |-> batch, all_df |-> <<>>]]
    /\ runs' = runs + 1
    /\ UNCHANGED <<history_csv, archive_files, serving_output, pc, rows, history_df, args>>
    /\ UNCHANGED <<keep_rows, archive_rows>>
    /\ UNCHANGED evalVars

\* lines 50-58: the stored rows are read, the new rows are appended, and the
\* frame is deduplicated and sorted; read_csv raises EmptyDataError on a
\* file of zero bytes and the run ends
ReadHistory ==
    /\ \E p \in Refreshes :
         /\ refresh[p].pc = "started"
         /\ refresh' = [refresh EXCEPT ![p] =
               IF history_csv = Some(<<>>)
               THEN [@ EXCEPT !.pc = "failed"]
               ELSE [@ EXCEPT !.pc = "merged",
                              !.all_df = sort_values(drop_duplicates(
                                             StoredRows \o refresh[p].new_df))]]
    /\ UNCHANGED <<history_csv, archive_files, serving_output, pc, rows, history_df, args, runs>>
    /\ UNCHANGED <<keep_rows, archive_rows>>
    /\ UNCHANGED evalVars

\* line 60, to_csv opening the file for writing: the file is truncated
OpenHistory ==
    /\ \E p \in Refreshes :
         /\ refresh[p].pc = "merged"
         /\ refresh' = [refresh EXCEPT ![p].pc = "opened"]
    /\ history_csv' = Some(<<>>)
    /\ UNCHANGED <<archive_files, serving_output, pc, rows, history_df, args, runs>>
    /\ UNCHANGED <<keep_rows, archive_rows>>
    /\ UNCHANGED evalVars

\* line 60, to_csv closing the file: the rows are written from offset 0
WriteHistory ==
    /\ \E p \in Refreshes :
         /\ refresh[p].pc = "opened"
         /\ refresh' = [refresh EXCEPT ![p].pc = "done"]
         /\ history_csv' = Some(WriteAtStart(StoredRows, refresh[p].all_df))
    /\ UNCHANGED <<archive_files, serving_output, pc, rows, history_df, args, runs>>
    /\ UNCHANGED <<keep_rows, archive_rows>>
    /\ UNCHANGED evalVars

NextConcurrent == StartRefresh \/ ReadHistory \/ OpenHistory \/ WriteHistory

SpecConcurrent == InitStore /\ [][NextConcurrent]_vars

(***************************************************************************)
(* Properties.                                                             *)
(***************************************************************************)
R == Val(result)

\* the call returned from the dynamic or the static branch
Classified == NotNone(result) /\ R.returned_at \in {"dynamic", "static"}

\* a rational equals the integer n
RatEqInt(r, n) == r.n = n * r.d

\* a surd equals the integer n
SurdEqInt(s, n) ==
    /\ LeSqrt(n * s.d - s.a, s.b, s.v)
    /\ LeSqrt(s.a - n * s.d, -(s.b), s.v)

\* the policy thresholds in force: the configured ones, else 1 and 2 in
\* dynamic mode and 1 and 1 in static mode
YellowAt ==
    IF PolicyIsFalsy(R.policy) THEN 1
    ELSE GetOr(Val(R.policy).yellow_if_signal_count_gte, 1)

RedAt ==
    IF PolicyIsFalsy(R.policy) THEN (IF R.returned_at = "dynamic" THEN 2 ELSE 1)
    ELSE GetOr(Val(R.policy).red_if_signal_count_gte, 2)

\* C1: the status is Red if signal_count >= red threshold, otherwise Yellow
\* if signal_count >= yellow threshold, otherwise Green; under the dynamic
\* default policy {yellow:1, red:2} a count of 0 gives Green, 1 gives Yellow
\* and every count >= 2 gives Red.
C1_StatusFromSignalCount ==
    Classified =>
        /\ R.status = (IF R.signal_count >= RedAt THEN "Red"
                       ELSE IF R.signal_count >= YellowAt THEN "Yellow"
                       ELSE "Green")
        /\ (R.returned_at = "dynamic" /\ IsNone(R.policy)) =>
             /\ R.signal_count = 0 => R.status = "Green"
             /\ R.signal_count = 1 => R.status = "Yellow"
             /\ R.signal_count >= 2 => R.status = "Red"

C1_Witness ==
    /\ Classified /\ R.returned_at = "dynamic" /\ IsNone(R.policy)
    /\ R.signal_count = 2 /\ R.status = "Red"

\* the scenario call: series 10,10,10,10,50, count type, window_days = 1,
\* dynamic mode with window=5, k=1, min_history_points=5, the rest default
ScenarioCall ==
    /\ NotNone(result) /\ daily_df = ScenarioSeries
    /\ R.metric_key = "scenario" /\ R.value_type = "count" /\ R.window_days = 1

ScenarioStatistics ==
    /\ NotNone(R.r_mean) /\ RatEqInt(Val(R.r_mean), 18)
    /\ NotNone(R.r_std) /\ SurdEqInt(Val(R.r_std), 16)
    /\ NotNone(R.upper_threshold) /\ SurdEqInt(Val(R.upper_threshold), 34)

\* C2 as stated: in the scenario r_mean = 18, r_std = 16, upper_threshold =
\* 34, signal U is active, signal_count = 1 and the status is Yellow.
C2_ScenarioYellow ==
    ScenarioCall =>
        /\ ScenarioStatistics
        /\ \E i \in 1..Len(R.signals) : R.signals[i] = "U"
        /\ R.signal_count = 1 /\ R.status = "Yellow"

\* C2 amended: in the scenario r_mean = 18, r_std = 16, upper_threshold =
\* 34; pct_change = (50-10)/10 = 4 >= 0.5, so signals U and P are both
\* active, signal_count = 2 and the status is Red.
C2_ScenarioRed ==
    ScenarioCall =>
        /\ ScenarioStatistics
        /\ NotNone(R.pct_change) /\ RatEqInt(Val(R.pct_change), 4)
        /\ R.signals = <<"U", "P">>
        /\ R.signal_count = 2 /\ R.status = "Red"

C2_Witness == ScenarioCall /\ R.returned_at = "dynamic" /\ R.rolling_points_used = 5

\* signal code sig is among the active signals of the result
Active(sig) == \E i \in 1..Len(R.signals) : R.signals[i] = sig

\* every row of the series carries the same value
ConstantSeries(df) == \A i, j \in 1..Len(df) : df[i].value = df[j].value

\* the bound s equals the current rolling value x_t
EqualsXt(s) == LeSurd(Val(R.x_t), R.sc, s) /\ GeSurd(Val(R.x_t), R.sc, s)

\* C3 as stated: for a constant daily series long enough for the bound to be
\* computed, in dynamic mode (k > 0), lower_threshold = upper_threshold = the
\* current rolling value and neither L nor U is active.
C3_ConstantSeriesNoSignal ==
    (/\ NotNone(result) /\ R.returned_at = "dynamic"
     /\ ConstantSeries(daily_df) /\ NotNone(R.lower_threshold) /\ R.k.n > 0) =>
        /\ EqualsXt(Val(R.lower_threshold))
        /\ EqualsXt(Val(R.upper_threshold))
        /\ ~Active("L") /\ ~Active("U")

\* r_mean -/+ k*r_std over the trailing `window` entries of the rolling series
BoundOverTrailingWindow(sign) ==
    LET tail == LastN(XValues(R.x_series), R.rolling_window)
        n    == Len(tail)
        S    == SumSeq(tail)
        V    == n * SumSqSeq(tail) - S * S
    IN  Surd(S * R.k.d, sign * R.k.n, V, n * R.sc * R.k.d)

\* C4 as stated: in dynamic mode, whenever the rolling series has at least
\* min_history_points entries the bounds are r_mean - k*r_std and
\* r_mean + k*r_std over the trailing `window` entries (population std);
\* with fewer entries both bounds are null.
C4_BoundsFromMinHistoryPoints ==
    (NotNone(result) /\ R.returned_at = "dynamic") =>
        IF Len(R.x_series) >= R.min_history_points
        THEN /\ NotNone(R.lower_threshold) /\ NotNone(R.upper_threshold)
             /\ Val(R.lower_threshold) = BoundOverTrailingWindow(-1)
             /\ Val(R.upper_threshold) = BoundOverTrailingWindow(1)
        ELSE IsNone(R.lower_threshold) /\ IsNone(R.upper_threshold)

\* the configuration of the evaluated metric
Cfg == get_thresholds(R.metric_key)

StaticCfg == GetOr(Cfg.static, NoStatic)

StaticDirection == StripLower(GetOr(StaticCfg.direction, "both"))

\* the call fell through to the static branch
StaticReturn == NotNone(result) /\ R.returned_at = "static"

\* C5: in static mode L is active exactly when direction permits lower-bound
\* checks, lower_threshold is configured and x_t <= lower_threshold, and U is
\* active exactly when direction permits upper-bound checks, upper_threshold
\* is configured and x_t >= upper_threshold (both inclusive); with
\* lower_threshold=100, direction=lower_only, no policy and x_t = 90 the
\* result has signal L and status Red.
C5_StaticSignals ==
    StaticReturn =>
        /\ Active("L") <=> /\ StaticDirection # "upper_only"
                           /\ NotNone(StaticCfg.lower_threshold)
                           /\ Val(R.x_t) <= Val(StaticCfg.lower_threshold) * R.sc
        /\ Active("U") <=> /\ StaticDirection # "lower_only"
                           /\ NotNone(StaticCfg.upper_threshold)
                           /\ Val(R.x_t) >= Val(StaticCfg.upper_threshold) * R.sc
        /\ (/\ StaticCfg.lower_threshold = Some(100) /\ StaticDirection = "lower_only"
            /\ IsNone(Cfg.policy) /\ Val(R.x_t) = 90 * R.sc) =>
               R.signals = <<"L">> /\ R.status = "Red"

C5_Witness ==
    /\ StaticReturn /\ StaticCfg.lower_threshold = Some(100)
    /\ StaticDirection = "lower_only" /\ IsNone(Cfg.policy)
    /\ Val(R.x_t) = 90 * R.sc /\ R.signals = <<"L">> /\ R.status = "Red"

\* the metric's mode is static (anything but dynamic falls to the static branch)
StaticMode == Lower(threshold_mode(R.metric_key, "static")) # "dynamic"

\* C6 as stated: in static mode with no policy configured, for every
\* non-empty series the status is Red when at least one of L/U is active and
\* Green otherwise; Yellow is never returned.
C6_StaticStrictNeverYellow ==
    (/\ NotNone(result) /\ Len(DropNa(daily_df)) > 0
     /\ StaticMode /\ PolicyIsFalsy(Cfg.policy)) =>
        /\ R.status = (IF Active("L") \/ Active("U") THEN "Red" ELSE "Green")
        /\ R.status # "Yellow"

\* C9 as stated: for a metric whose mode is static no calendar day is removed
\* from the daily series before the rolling series is built and
\* weekday_filter_applied is false, whatever exclude_weekdays is configured.
C9_ExclusionInDynamicModeOnly ==
    (NotNone(result) /\ Len(DropNa(daily_df)) > 0 /\ StaticMode) =>
        /\ R.weekday_filter_applied = FALSE
        /\ R.returned_at = "static"
        /\ R.df = SortByDate(DropNa(daily_df))

\* the call returned from the dynamic branch
DynamicReturn == NotNone(result) /\ R.returned_at = "dynamic"

\* indices of the rolling-series entries with the month-and-day of the
\* latest date and a strictly earlier date
SeasonalIndices ==
    LET n == Len(R.x_series)
    IN  {i \in 1..n : /\ MonthDay(R.x_series[i].as_of_date) = MonthDay(R.x_series[n].as_of_date)
                      /\ R.x_series[i].as_of_date < R.x_series[n].as_of_date}

\* C7: the seasonal comparison set is exactly the rolling-series entries with
\* the month-and-day of the latest date and a strictly earlier date;
\* seasonal_zscore = (x_t - s_mean)/s_std is defined only when the set has at
\* least min_seasonal_points entries and s_std is non-zero (and is then
\* defined); Z is active exactly when seasonal_zscore is defined,
\* |seasonal_zscore| >= z_score_lim and Z is in signals_enabled.
C7_SeasonalZScore ==
    DynamicReturn =>
        LET hist == XValues(R.seasonal_hist)
            M    == Len(hist)
            S    == SumSeq(hist)
            V    == M * SumSqSeq(hist) - S * S
            z    == R.seasonal_zscore
        IN  /\ {R.seasonal_hist[i] : i \in 1..M} = {R.x_series[i] : i \in SeasonalIndices}
            /\ M = Cardinality(SeasonalIndices)
            /\ R.seasonal_points_used = M
            /\ NotNone(z) <=> (M >= R.min_seasonal_points /\ M >= 1 /\ V # 0)
            /\ NotNone(z) => (Val(z).num = M * Val(R.x_t) - S /\ Val(z).v = V)
            /\ Active("Z") <=>
                 /\ NotNone(z)
                 /\ Val(z).num * Val(z).num * R.z_score_lim.d * R.z_score_lim.d
                        >= R.z_score_lim.n * R.z_score_lim.n * Val(z).v
                 /\ "Z" \in R.signals_enabled

C7_Witness ==
    /\ DynamicReturn /\ Active("Z")
    /\ Len(R.seasonal_hist) >= 2 /\ Len(R.seasonal_hist) < Len(R.x_series) - 1

\* C8: pct_change = (x_t - x_prev)/x_prev with x_prev the second-to-last
\* rolling value, null when the rolling series has one entry or x_prev is
\* zero; in dynamic mode P is active exactly when pct_change is defined,
\* |pct_change| >= percent_drop and P is in signals_enabled, whatever the
\* direction and the sign of the change.
C8_PercentChange ==
    Classified =>
        LET n      == Len(R.x_series)
            x_t    == R.x_series[n].x
            x_prev == R.x_series[n - 1].x
            p      == R.pct_change
        IN  /\ IF n >= 2 /\ x_prev # 0
               THEN NotNone(p) /\ Val(p).n * x_prev = (x_t - x_prev) * Val(p).d
               ELSE IsNone(p)
            /\ R.returned_at = "dynamic" =>
                 (Active("P") <=>
                    /\ NotNone(p)
                    /\ Abs(x_t - x_prev) * R.percent_drop.d >= R.percent_drop.n * Abs(x_prev)
                    /\ "P" \in R.signals_enabled)

C8_Witness ==
    /\ DynamicReturn /\ StripLower(R.direction) = "upper_only"
    /\ NotNone(R.pct_change) /\ Val(R.pct_change).n < 0 /\ Active("P")

\* Monday = 0 weekday of a date (1970-01-05 is a Monday)
WeekdayIndex(date) == (date - 4) % 7

\* the weekdays the exclusion metrics of ConfigYaml exclude
ExcludedBy(metric_key) == IF metric_key = "dyn_excl_sun" THEN {6} ELSE {3, 4}

\* the call used weekday exclusion, every row on an excluded weekday has
\* value 0, and the bound was computed
ZeroWeekdayExcluded ==
    /\ DynamicReturn /\ R.metric_key \in {"dyn_excl_sun", "dyn_excl_mix"}
    /\ LET clean == DropNa(daily_df)
       IN  \A i \in 1..Len(clean) :
              WeekdayIndex(Val(clean[i].as_of_date)) \in ExcludedBy(R.metric_key)
                  => Val(clean[i].value) = 0
    /\ NotNone(R.r_mean)

\* the same call with the same dynamic window and min_history_points but no
\* weekday exclusion
WithoutExclusion ==
    evaluate_thresholds_for_window(daily_df, "dyn_small", R.value_type, R.window_days)

RatGe(p, q) == p.n * q.d >= q.n * p.d

\* C10 as stated: with a weekday whose value is always 0, whenever the bound
\* is computed both with and without that weekday excluded, r_mean with the
\* exclusion is not lower than r_mean without it.
C10_ExclusionDoesNotDepressMean ==
    (ZeroWeekdayExcluded /\ NotNone(WithoutExclusion.r_mean)) =>
        RatGe(Val(R.r_mean), Val(WithoutExclusion.r_mean))

\* C10 amended: the same at window_days = 1.
C10_ExclusionDoesNotDepressDailyMean ==
    (ZeroWeekdayExcluded /\ R.window_days = 1 /\ NotNone(WithoutExclusion.r_mean)) =>
        RatGe(Val(R.r_mean), Val(WithoutExclusion.r_mean))

C10_Witness ==
    /\ ZeroWeekdayExcluded /\ R.window_days = 1 /\ NotNone(WithoutExclusion.r_mean)
    /\ Len(R.df) < Len(DropNa(daily_df))
    /\ ~RatGe(Val(WithoutExclusion.r_mean), Val(R.r_mean))

\* no bound, no seasonal z-score, no percent change and no signal
NothingComputed ==
    /\ IsNone(R.lower_threshold) /\ IsNone(R.upper_threshold)
    /\ IsNone(R.seasonal_zscore) /\ IsNone(R.pct_change)
    /\ R.signals = <<>> /\ R.signal_count = 0

TooFewRollingEntries == Len(R.x_series) < R.min_history_points

TooFewSeasonalEntries == Len(R.seasonal_hist) < R.min_seasonal_points

NoUsablePrevious == IsNone(R.x_prev) \/ Val(R.x_prev) = 0

\* a dynamic-mode call whose data are insufficient for every statistic
InsufficientData ==
    /\ DynamicReturn /\ TooFewRollingEntries /\ TooFewSeasonalEntries
    /\ NoUsablePrevious

ExcludedWeekdaysOf(metric_key) ==
    CASE metric_key = "dyn_excl_sun" -> {6}
      [] metric_key = "dyn_excl_mix" -> {3, 4}
      [] metric_key = "static_excl"  -> {4, 6}
      [] OTHER                       -> {}

\* the input has no rows
NoRows == Len(daily_df) = 0

\* the input has rows and none of them has both a date and a value
NoParseableRow == Len(daily_df) > 0 /\ Len(DropNa(daily_df)) = 0

\* there are parseable rows and each falls on an excluded weekday
AllRowsExcluded ==
    LET clean == DropNa(daily_df)
    IN  /\ Len(clean) > 0
        /\ \A i \in 1..Len(clean) :
              WeekdayIndex(Val(clean[i].as_of_date)) \in ExcludedWeekdaysOf(R.metric_key)

\* C12: when the working series is empty (no rows, no row with a parseable
\* date and value, or weekday exclusion removes every row) the result is
\* Yellow with signal_count 0, no signals and null bounds, pct_change and
\* seasonal_zscore; weekday_filter_applied is true in the exclusion case and
\* false in the other two.
C12_EmptyWorkingSeriesYellow ==
    (NotNone(result) /\ (NoRows \/ NoParseableRow \/ AllRowsExcluded)) =>
        /\ R.status = "Yellow" /\ NothingComputed
        /\ R.rolling_points_used = 0 /\ R.seasonal_points_used = 0
        /\ R.weekday_filter_applied = AllRowsExcluded

C12_Witness ==
    /\ NotNone(result) /\ AllRowsExcluded
    /\ Len(daily_df) > Len(DropNa(daily_df))
    /\ R.status = "Yellow" /\ R.weekday_filter_applied

\* the metric key of the call has no entry in the configuration
Unconfigured == NotNone(result) /\ R.metric_key \notin ConfiguredKeys

\* static mode, no bounds, no signal, Green
GreenStaticNoBounds ==
    /\ R.returned_at = "static" /\ R.mode = "static"
    /\ IsNone(R.lower_threshold) /\ IsNone(R.upper_threshold)
    /\ R.signals = <<>> /\ R.signal_count = 0
    /\ R.status = "Green"
    /\ R.weekday_filter_applied = FALSE

\* C13 as stated: for a metric_key with no configuration entry, evaluation of
\* any non-empty series proceeds in static mode with no bounds and returns
\* Green with zero signals and null lower/upper thresholds.
C13_UnconfiguredGreen ==
    (Unconfigured /\ Len(daily_df) > 0) => GreenStaticNoBounds

\* C13 amended: the same for any series with at least one row whose date and
\* value both parse.
C13_UnconfiguredGreenOnParseableRows ==
    (Unconfigured /\ Len(DropNa(daily_df)) > 0) => GreenStaticNoBounds

C13_Witness ==
    /\ Unconfigured /\ Len(DropNa(daily_df)) >= 2
    /\ Len(daily_df) > Len(DropNa(daily_df))
    /\ GreenStaticNoBounds

(***************************************************************************)
(* Properties of the refresh run.                                          *)
(***************************************************************************)
\* the run has just rebuilt the snapshot from history_df
SnapshotBuilt == pc = "append" /\ runs > 0 /\ NotNone(serving_output)

Snapshot == Val(serving_output)

\* the daily series of a metric group in the history the snapshot was built
\* from: the rows of daily grain whose date parses
DailySeries(section, metric_key) ==
    {history_df[i] : i \in {j \in 1..Len(history_df) :
        /\ NotNone(history_df[j].as_of_date) /\ history_df[j].window_days = 1
        /\ history_df[j].section = section /\ history_df[j].metric_key = metric_key}}

DailyGroups ==
    {<<history_df[i].section, history_df[i].metric_key>> :
        i \in {j \in 1..Len(history_df) :
                 NotNone(history_df[j].as_of_date) /\ history_df[j].window_days = 1}}

LatestDate(S) == CHOOSE d \in {Val(r.as_of_date) : r \in S} :
                    \A r \in S : Val(r.as_of_date) <= d

\* the value a series has on day d, zero when the day is missing
ValueOn(S, d) ==
    IF \E r \in S : Val(r.as_of_date) = d
    THEN Val((CHOOSE r \in S : Val(r.as_of_date) = d).value)
    ELSE 0

RECURSIVE SumOverDays(_, _, _)
SumOverDays(S, first, last) ==
    IF first > last THEN 0 ELSE ValueOn(S, first) + SumOverDays(S, first + 1, last)

DaysPresent(S, first, last) ==
    Cardinality({d \in first..last : \E r \in S : Val(r.as_of_date) = d})

\* the snapshot row q carries the aggregate of series S over window w
AggregateAsStated(q, S) ==
    LET w      == q.window_days
        latest == LatestDate(S)
        first  == latest - (w - 1)
        total  == SumOverDays(S, first, latest)
        n      == DaysPresent(S, first, latest)
        type   == (CHOOSE r \in S : Val(r.as_of_date) = latest).value_type
    IN  /\ q.as_of_date = latest
        /\ NotNone(q.value)
        /\ type = "count" => Val(q.value).n = total * Val(q.value).d
        /\ type = "rate" => Val(q.value).n * n = total * Val(q.value).d
        /\ w = 1 => Val(q.value).n = ValueOn(S, latest) * Val(q.value).d

\* C14: for every non-empty daily series and every window w >= 1 the
\* snapshot holds one row whose value is, for a count metric, the sum of the
\* values dated within the w calendar days [latest_date-(w-1), latest_date]
\* (a missing day adds zero) and, for a rate metric, their mean over the days
\* present; with w = 1 it is the raw value of the latest day.
C14_WindowAggregate ==
    SnapshotBuilt =>
        /\ \A grp \in DailyGroups : \A k \in 1..Len(SnapshotWindows) :
              \E i \in 1..Len(Snapshot) :
                 /\ Snapshot[i].section = grp[1] /\ Snapshot[i].metric_key = grp[2]
                 /\ Snapshot[i].window_days = SnapshotWindows[k]
        /\ \A i \in 1..Len(Snapshot) :
              AggregateAsStated(Snapshot[i],
                                DailySeries(Snapshot[i].section, Snapshot[i].metric_key))

\* a snapshot row of window 3 over a series with the day before the latest
\* missing, for a count and for a rate metric
GapRow(type) ==
    \E i \in 1..Len(Snapshot) :
       LET q == Snapshot[i]
           S == DailySeries(q.section, q.metric_key)
       IN  /\ q.window_days = 3 /\ q.value_type = type
           /\ \E r \in S : Val(r.as_of_date) = q.as_of_date - 2
           /\ ~\E r \in S : Val(r.as_of_date) = q.as_of_date - 1

C14_Witness == SnapshotBuilt /\ GapRow("count") /\ GapRow("rate")

\* the rows of a CSV file, none while the file does not exist
RowsOf(file) == IF NotNone(file) THEN Val(file) ELSE <<>>

KeysOf(df) == {NaturalKey(df[i]) : i \in 1..Len(df)}

\* the last row of df with natural key k
LastWithKey(df, k) ==
    df[CHOOSE i \in 1..Len(df) :
          /\ NaturalKey(df[i]) = k
          /\ \A j \in (i + 1)..Len(df) : NaturalKey(df[j]) # k]

NoDuplicateKeys(df) ==
    \A i, j \in 1..Len(df) : i # j => NaturalKey(df[i]) # NaturalKey(df[j])

\* the step of a run that appends its rows, the rows being non-empty
AppendedRows == pc = "append" /\ pc' = "retention" /\ Len(rows') > 0

\* the step of a run that appends no row
AppendedNothing == pc = "append" /\ pc' = "retention" /\ Len(rows') = 0

\* C15: after an append of non-empty new rows the stored history has exactly
\* one row per natural key occurring in the existing rows or in the new
\* ones; for a key occurring in the new rows the stored row is the last new
\* row with that key, for a key occurring only in the existing rows it is
\* the existing row unchanged.
C15_AppendKeepsLastPerKey ==
    [][AppendedRows =>
         LET existing == RowsOf(history_csv)
             stored   == RowsOf(history_csv')
         IN  /\ NotNone(history_csv')
             /\ NoDuplicateKeys(stored)
             /\ KeysOf(stored) = KeysOf(existing) \cup KeysOf(rows')
             /\ \A k \in KeysOf(rows') :
                   LastWithKey(stored, k) = LastWithKey(rows', k)
             /\ \A k \in KeysOf(existing) \ KeysOf(rows') :
                   LastWithKey(stored, k) = LastWithKey(existing, k)
             /\ history_df' = stored]_vars

\* an append has just run whose rows held one key twice with different
\* values, onto a store that keeps a row of another key
C15_Witness ==
    /\ pc = "retention" /\ Len(rows) = 2
    /\ NaturalKey(rows[1]) = NaturalKey(rows[2]) /\ rows[1].value # rows[2].value
    /\ LastWithKey(RowsOf(history_csv), NaturalKey(rows[2])) = rows[2]
    /\ KeysOf(RowsOf(history_csv)) \ KeysOf(rows) # {}

\* C16: an append whose new rows are empty leaves the persisted history as
\* it was, whatever it held: no row removed or changed, no file written.
C16_EmptyAppendLeavesStore ==
    [][AppendedNothing =>
         /\ history_csv' = history_csv
         /\ archive_files' = archive_files
         /\ serving_output' = serving_output]_vars

\* an append without rows has just run on a store that holds rows
C16_Witness ==
    /\ pc = "retention" /\ runs > 1 /\ Len(rows) = 0 /\ Len(history_df) = 0
    /\ Len(RowsOf(history_csv)) >= 2

\* C17: appending the rows that have just been appended once more leaves the
\* store as it is after the first append, with no duplicate natural keys.
C17_AppendIdempotent ==
    (pc = "retention" /\ Len(rows) > 0) =>
        /\ append_history_rows(history_csv, rows).history_csv = history_csv
        /\ append_history_rows(history_csv, rows).returned = RowsOf(history_csv)
        /\ NoDuplicateKeys(RowsOf(history_csv))

\* the rows just appended replaced a stored row and came out of order
C17_Witness ==
    /\ pc = "retention" /\ Len(rows) = 2 /\ runs > 1
    /\ SortsBefore(rows[2], rows[1])
    /\ Len(RowsOf(history_csv)) > Len(rows)

\* the rows of df stand in ascending order of
\* (as_of_date, section, metric_key, window_days)
SortedByKey(df) == \A i, j \in 1..Len(df) : i < j => SortsBefore(df[i], df[j])

\* no (section, metric_key) daily series of df has two entries of one date
NoDuplicateDates(df) ==
    \A i, j \in 1..Len(df) :
        (/\ i # j
         /\ df[i].window_days = 1 /\ df[j].window_days = 1
         /\ df[i].section = df[j].section /\ df[i].metric_key = df[j].metric_key
         /\ NotNone(df[i].as_of_date))
            => df[i].as_of_date # df[j].as_of_date

\* C18: after any sequence of non-empty appends and retention passes the
\* persisted history has no two rows with the same natural key and is
\* sorted ascending by (as_of_date, section, metric_key, window_days); the
\* daily series of every (section, metric_key) has no two entries with the
\* same date.
C18_StoreSortedNoDuplicates ==
    /\ NoDuplicateKeys(RowsOf(history_csv))
    /\ SortedByKey(RowsOf(history_csv))
    /\ NoDuplicateDates(RowsOf(history_csv))
    /\ \A ym \in DOMAIN archive_files :
          NoDuplicateKeys(archive_files[ym]) /\ SortedByKey(archive_files[ym])

\* a store after appends and a retention pass that archived rows: it holds
\* both metrics, two grains on one date and a row whose date is no date
C18_Witness ==
    LET stored == RowsOf(history_csv)
    IN  /\ pc = "append" /\ runs >= 2 /\ DOMAIN archive_files # {}
        /\ \E i, j \in 1..Len(stored) :
              /\ stored[i].as_of_date = stored[j].as_of_date
              /\ stored[i].window_days # stored[j].window_days
        /\ \E i, j \in 1..Len(stored) : stored[i].metric_key # stored[j].metric_key

\* the step of a run that applies retention
AppliedRetention == pc = "retention" /\ pc' = "snapshot"

RowSet(df) == {df[i] : i \in 1..Len(df)}

\* the dates of the rows of df whose date parses
DatesOf(df) == {Val(df[i].as_of_date) : i \in {j \in 1..Len(df) : NotNone(df[j].as_of_date)}}

LatestOf(D) == CHOOSE d \in D : \A e \in D : e <= d

EarliestOf(D) == CHOOSE d \in D : \A e \in D : d <= e

\* C19: retention with retention_days >= 1 keeps in the active store exactly
\* the rows with as_of_date >= cutoff, cutoff being max(as_of_date) -
\* (retention_days - 1) over all rows of all metrics, and removes the
\* others; with retention_days <= 0 or an empty input it returns its input
\* unchanged and writes nothing.  (max(as_of_date) is taken over the dates
\* that parse; an input without any is left aside.)
C19_RetentionKeepsFromCutoff ==
    [][AppliedRetention =>
         LET retention_days == args'.history_retention_days
             cutoff         == LatestOf(DatesOf(history_df)) - (retention_days - 1)
         IN  /\ (retention_days >= 1 /\ DatesOf(history_df) # {}) =>
                   /\ NotNone(history_csv')
                   /\ RowSet(Val(history_csv')) =
                         {r \in RowSet(history_df) :
                             NotNone(r.as_of_date) /\ Val(r.as_of_date) >= cutoff}
                   /\ Len(Val(history_csv')) = Cardinality(RowSet(Val(history_csv')))
                   /\ history_df' = Val(history_csv')
             /\ (retention_days <= 0 \/ Len(history_df) = 0) =>
                   /\ history_df' = history_df
                   /\ history_csv' = history_csv
                   /\ archive_files' = archive_files]_vars

\* retention has just removed the older rows of a store in which the two
\* metrics end on different days
C19_Witness ==
    LET stored == RowsOf(history_csv)
    IN  /\ pc = "snapshot" /\ args.history_retention_days = 2
        /\ args.history_archive_dir /\ DOMAIN archive_files # {}
        /\ \E i, j \in 1..Len(stored) :
              /\ stored[i].metric_key # stored[j].metric_key
              /\ stored[i].as_of_date # stored[j].as_of_date
        /\ \A ym \in DOMAIN archive_files : \A i \in 1..Len(archive_files[ym]) :
              Val(archive_files[ym][i].as_of_date) < EarliestOf(DatesOf(stored))

\* every row of df is dated and the dates are consecutive days
ConsecutiveDays(df) ==
    /\ Len(df) > 0
    /\ \A i \in 1..Len(df) : NotNone(df[i].as_of_date)
    /\ DatesOf(df) = EarliestOf(DatesOf(df))..LatestOf(DatesOf(df))

\* C20: for a history with rows on each of D consecutive days and
\* retention_days = R < D with an archive target, retention keeps exactly
\* the rows of the most recent R dates, places every other row in the
\* archive partition of its calendar month, and loses no row.
C20_RetentionArchivesByMonth ==
    [][(/\ AppliedRetention /\ args'.history_archive_dir
        /\ ConsecutiveDays(history_df)
        /\ args'.history_retention_days >= 1
        /\ args'.history_retention_days < Cardinality(DatesOf(history_df))) =>
         LET keep_n == args'.history_retention_days
             latest == LatestOf(DatesOf(history_df))
             recent == (latest - keep_n + 1)..latest
             kept   == RowSet(RowsOf(history_csv'))
             InPartition(r) ==
                 /\ YearMonth(Val(r.as_of_date)) \in DOMAIN archive_files'
                 /\ r \in RowSet(archive_files'[YearMonth(Val(r.as_of_date))])
         IN  /\ kept = {r \in RowSet(history_df) : Val(r.as_of_date) \in recent}
             /\ DatesOf(RowsOf(history_csv')) = recent
             /\ \A r \in RowSet(history_df) \ kept : InPartition(r)
             /\ \A r \in RowSet(history_df) : r \in kept \/ InPartition(r)]_vars

\* retention to one day has just run with an archive target on a history of
\* three consecutive days: the latest day is kept, the two earlier days lie
\* in the partitions of two different months
C20_Witness ==
    LET stored == RowsOf(history_csv)
    IN  /\ pc = "snapshot" /\ args.history_retention_days = 1
        /\ args.history_archive_dir
        /\ Cardinality(DatesOf(stored)) = 1
        /\ Cardinality(DOMAIN archive_files) = 2
        /\ \E ym \in DOMAIN archive_files : \E i \in 1..Len(archive_files[ym]) :
              Val(archive_files[ym][i].as_of_date) = LatestOf(DatesOf(stored)) - 1
        /\ \E ym \in DOMAIN archive_files : \E i \in 1..Len(archive_files[ym]) :
              Val(archive_files[ym][i].as_of_date) = LatestOf(DatesOf(stored)) - 2

\* df holds a row whose as_of_date does not parse
HasUnparseableDate(df) == \E i \in 1..Len(df) : IsNone(df[i].as_of_date)

\* C21 as stated: for every non-empty input and retention_days >= 1 the rows
\* retention returns and persists contain no row whose as_of_date is
\* unparseable.
C21_RetentionDropsUnparseableDates ==
    [][(/\ AppliedRetention /\ Len(history_df) > 0
        /\ args'.history_retention_days >= 1) =>
         /\ ~HasUnparseableDate(history_df')
         /\ ~HasUnparseableDate(RowsOf(history_csv'))]_vars


\* the snapshot rows of metric group grp
RowsOfGroup(grp) ==
    SelectSeq(Snapshot, LAMBDA q : q.section = grp[1] /\ q.metric_key = grp[2])

\* C22: the serving snapshot holds exactly one row per (section, metric_key,
\* window) for each group with at least one daily-grain row whose date
\* parses, each row carries the group's latest daily date, rows of other
\* grains are ignored, and the rows ascend by (section, metric_key,
\* window_days).
C22_SnapshotOneRowPerGroupAndWindow ==
    SnapshotBuilt =>
        /\ \A i \in 1..Len(Snapshot) :
              <<Snapshot[i].section, Snapshot[i].metric_key>> \in DailyGroups
        /\ \A grp \in DailyGroups :
              /\ Len(RowsOfGroup(grp)) = Len(SnapshotWindows)
              /\ \A k \in 1..Len(SnapshotWindows) :
                    /\ RowsOfGroup(grp)[k].window_days = SnapshotWindows[k]
                    /\ RowsOfGroup(grp)[k].as_of_date =
                          LatestDate(DailySeries(grp[1], grp[2]))
        /\ \A i \in 1..(Len(Snapshot) - 1) :
              \/ /\ Snapshot[i].section = Snapshot[i + 1].section
                 /\ Snapshot[i].metric_key = Snapshot[i + 1].metric_key
                 /\ Snapshot[i].window_days < Snapshot[i + 1].window_days
              \/ /\ Snapshot[i].section = Snapshot[i + 1].section
                 /\ StrRank(Snapshot[i].metric_key) < StrRank(Snapshot[i + 1].metric_key)
              \/ StrRank(Snapshot[i].section) < StrRank(Snapshot[i + 1].section)

\* both metric groups are in the snapshot, built from a history that also
\* holds a weekly-grain row dated after the latest daily row of its group and
\* a row whose date does not parse
C22_Witness ==
    /\ SnapshotBuilt
    /\ Cardinality(DailyGroups) = 2
    /\ HasUnparseableDate(history_df)
    /\ \E i \in 1..Len(history_df) :
          /\ history_df[i].window_days = 7
          /\ Val(history_df[i].as_of_date) >
                LatestDate(DailySeries(history_df[i].section, history_df[i].metric_key))


\* a step of the snapshot build
BuiltSnapshot == pc = "snapshot" /\ pc' = "append"

\* history_df has no row of daily grain with a parseable date
NoDailyRows == DailyGroups = {}

\* q is the row computed from history_df for its group and window
ComputedFromHistory(q) ==
    /\ <<q.section, q.metric_key>> \in DailyGroups
    /\ q.window_days \in {SnapshotWindows[k] : k \in 1..Len(SnapshotWindows)}
    /\ q.as_of_date = LatestDate(DailySeries(q.section, q.metric_key))
    /\ AggregateAsStated(q, DailySeries(q.section, q.metric_key))

\* C23: after every snapshot build the persisted snapshot is exactly the rows
\* computed from the history given to that build; no row of an earlier
\* build survives, and the snapshot has zero rows when that history is empty
\* or has no daily-grain rows.
C23_SnapshotOverwritten ==
    [][BuiltSnapshot =>
          /\ NotNone(serving_output')
          /\ \A i \in 1..Len(Val(serving_output')) :
                ComputedFromHistory(Val(serving_output')[i])
          /\ Len(Val(serving_output')) = Cardinality(DailyGroups) * Len(SnapshotWindows)
          /\ \A i \in 1..Len(RowsOf(serving_output)) :
                ~ComputedFromHistory(serving_output[1][i]) =>
                   ~\E j \in 1..Len(Val(serving_output')) :
                       Val(serving_output')[j] = serving_output[1][i]
          /\ NoDailyRows => Val(serving_output') = <<>>]_vars

\* a later run was given a non-empty history without daily rows and left a
\* snapshot of zero rows
C23_Witness ==
    /\ SnapshotBuilt /\ runs >= 2
    /\ Len(history_df) > 0 /\ NoDailyRows
    /\ Snapshot = <<>>

\* C27: append with empty new_rows returns an empty row set, not the stored
\* history; retention on that return value changes nothing, and the snapshot
\* build then overwrites the serving snapshot with zero rows although the
\* history store still holds its rows.
C27_EmptyAppendEmptiesSnapshot ==
    /\ [][AppendedNothing =>
             /\ history_df' = <<>>
             /\ history_csv' = history_csv]_vars
    /\ [][(AppliedRetention /\ Len(history_df) = 0) =>
             /\ history_df' = <<>>
             /\ history_csv' = history_csv
             /\ archive_files' = archive_files]_vars
    /\ [][(BuiltSnapshot /\ Len(history_df) = 0) =>
             /\ serving_output' = Some(<<>>)
             /\ history_csv' = history_csv]_vars

\* a run that appended nothing has left a snapshot of zero rows beside a
\* history store that holds rows of daily grain
C27_Witness ==
    /\ SnapshotBuilt /\ runs >= 2
    /\ Len(history_df) = 0
    /\ Snapshot = <<>>
    /\ \E i \in 1..Len(RowsOf(history_csv)) :
          /\ NotNone(RowsOf(history_csv)[i].as_of_date)
          /\ RowsOf(history_csv)[i].window_days = 1


\* the daily rows the latest call worked on, as a set
WorkingRows == {R.df[i] : i \in 1..Len(R.df)}

\* x (over the common denominator sc) is the windowed aggregate of the rows S
\* over the w calendar days ending at day d: their sum for a count metric,
\* their mean over the days present for a rate metric
IsWindowAggregate(x, sc, S, value_type, w, d) ==
    LET total == SumOverDays(S, d - (w - 1), d)
        n     == DaysPresent(S, d - (w - 1), d)
    IN  IF Lower(value_type) = "count" THEN x = total * sc ELSE x * n = total * sc

\* C24 as stated: for every daily series, missing calendar days included,
\* and every window w, when no weekday exclusion applies, every entry of
\* the rolling series, the current value x_t among them, equals the
\* windowed aggregate over the w calendar days ending at its date.
C24_RollingSeriesIsWindowAggregate ==
    (/\ NotNone(result) /\ R.returned_at \in {"dynamic", "static"}
     /\ R.excluded_weekdays = {}) =>
        /\ IsWindowAggregate(Val(R.x_t), R.sc, WorkingRows, R.value_type,
                             R.window_days, R.x_series[Len(R.x_series)].as_of_date)
        /\ \A i \in 1..Len(R.x_series) :
              IsWindowAggregate(R.x_series[i].x, R.sc, WorkingRows, R.value_type,
                                R.window_days, R.x_series[i].as_of_date)


\* the signal codes in the order the evaluator tests them
SignalOrder == <<"L", "U", "Z", "P">>

SignalRank(sig) == CHOOSE i \in 1..Len(SignalOrder) : SignalOrder[i] = sig

\* C30: every ThresholdResult is well formed: signal_count is the number of
\* codes in signals; signals holds each of L, U, Z, P at most once and in
\* that order; in static mode only L and U appear, seasonal_zscore is null
\* and rolling_points_used = seasonal_points_used = 0; in dynamic mode
\* rolling_points_used is 0 when the bounds are null and `window` otherwise;
\* and for a non-empty working series the status is the policy
\* classification of signal_count.
C30_ThresholdResultWellFormed ==
    NotNone(result) =>
        /\ R.signal_count = Len(R.signals)
        /\ \A i \in 1..Len(R.signals) :
              \E j \in 1..Len(SignalOrder) : R.signals[i] = SignalOrder[j]
        /\ \A i \in 1..(Len(R.signals) - 1) :
              SignalRank(R.signals[i]) < SignalRank(R.signals[i + 1])
        /\ StaticMode =>
              /\ \A i \in 1..Len(R.signals) : R.signals[i] \in {"L", "U"}
              /\ IsNone(R.seasonal_zscore)
              /\ R.rolling_points_used = 0 /\ R.seasonal_points_used = 0
        /\ ~StaticMode =>
              /\ IsNone(R.lower_threshold) <=> IsNone(R.upper_threshold)
              /\ R.rolling_points_used =
                    (IF IsNone(R.lower_threshold) THEN 0 ELSE R.rolling_window)
        /\ Len(R.df) > 0 =>
              R.status = (IF R.signal_count >= RedAt THEN "Red"
                          ELSE IF R.signal_count >= YellowAt THEN "Yellow"
                          ELSE "Green")

\* a dynamic result with bounds over a full window and three signals
C30_Witness ==
    /\ DynamicReturn
    /\ NotNone(R.lower_threshold) /\ R.rolling_points_used = R.rolling_window
    /\ Len(R.x_series) > R.rolling_window
    /\ Len(R.signals) >= 3


\* the rows of series S dated on a weekday not excluded for metric_key
KeptRows(S, metric_key) ==
    {r \in S : DayOfWeek(Val(r.as_of_date)) \notin ExcludedWeekdaysOf(metric_key)}

\* the daily series of q's group up to day d, as the evaluator receives it
SeriesUpTo(q, d) ==
    LET g == SortByDate(SelectSeq(history_df, LAMBDA r :
                /\ r \in DailySeries(q.section, q.metric_key)
                /\ Val(r.as_of_date) <= d))
    IN  [i \in 1..Len(g) |-> Row(g[i].as_of_date, g[i].value)]

\* the ThresholdResult of q's metric and window evaluated on the series up to d
EvaluatedAt(q, d) ==
    LET res == evaluate_thresholds_for_window(SeriesUpTo(q, d), q.metric_key,
                                              Lower(q.value_type), q.window_days)
    IN  [f \in ThresholdResultFields |-> res[f]]

\* the latest observation of q's group falls on an excluded weekday and an
\* earlier one does not
LatestExcluded(q) ==
    /\ DayOfWeek(q.as_of_date) \in ExcludedWeekdaysOf(q.metric_key)
    /\ KeptRows(DailySeries(q.section, q.metric_key), q.metric_key) # {}

\* C29: when weekday exclusion is configured and the latest observation of a
\* metric falls on an excluded weekday, the snapshot row carries the
\* as_of_date and the windowed aggregate of that latest date, while its
\* status, bounds, pct_change and signals are those evaluated at the last
\* non-excluded date of the series.
C29_ExcludedLatestDateEvaluatedEarlier ==
    SnapshotBuilt =>
        \A i \in 1..Len(Snapshot) :
           LET q == Snapshot[i]
               S == DailySeries(q.section, q.metric_key)
           IN  LatestExcluded(q) =>
                 /\ q.as_of_date = LatestDate(S)
                 /\ AggregateAsStated(q, S)
                 /\ q.threshold_result =
                       EvaluatedAt(q, LatestDate(KeptRows(S, q.metric_key)))
                 /\ q.threshold_result.weekday_filter_applied

\* a row dated Sunday with that Sunday's value 50, whose pct_change 1 and
\* bounds are those of the Saturday before (20 after 10), not those the
\* series gives up to the Sunday without exclusion
C29_Witness ==
    /\ SnapshotBuilt
    /\ \E i \in 1..Len(Snapshot) :
          LET q == Snapshot[i]
          IN  /\ LatestExcluded(q) /\ q.window_days = 1
              /\ RatEqInt(Val(q.value), 50)
              /\ NotNone(q.threshold_result.pct_change)
              /\ RatEqInt(Val(q.threshold_result.pct_change), 1)
              /\ NotNone(q.threshold_result.upper_threshold)
              /\ q.threshold_result.pct_change #
                    evaluate_thresholds_for_window(SeriesUpTo(q, q.as_of_date),
                        "dyn_small", Lower(q.value_type), q.window_days).pct_change


\* C28: when the snapshot is built from history that has passed retention
\* with 1 <= retention_days <= 730, at most one retained date earlier than
\* the evaluated date shares its month-and-day, so every row has
\* seasonal_points_used <= 1, a null seasonal_zscore and no signal Z.
C28_RetentionStarvesSeasonalSignal ==
    [][(/\ BuiltSnapshot
        /\ args.history_retention_days >= 1
        /\ args.history_retention_days <= DefaultRetentionDays) =>
          \A i \in 1..Len(Val(serving_output')) :
             LET q == Val(serving_output')[i]
                 S == DailySeries(q.section, q.metric_key)
             IN  /\ Cardinality({r \in S :
                        /\ Val(r.as_of_date) < q.as_of_date
                        /\ MonthDay(Val(r.as_of_date)) = MonthDay(q.as_of_date)}) <= 1
                 /\ q.threshold_result.seasonal_points_used <= 1
                 /\ IsNone(q.threshold_result.seasonal_zscore)
                 /\ \A j \in 1..Len(q.threshold_result.signals) :
                       q.threshold_result.signals[j] # "Z"]_vars

\* the history store holds the date one and the date two years before the
\* evaluated one, retention with the default 730 days has run, and the
\* snapshot row of the count metric has one seasonal point and no z-score
C28_Witness ==
    /\ SnapshotBuilt
    /\ \E i \in 1..Len(history_df) : history_df[i].as_of_date = Some(LastDay - 365)
    /\ ~\E i \in 1..Len(history_df) : history_df[i].as_of_date = Some(LastDay - 730)
    /\ \E ym \in DOMAIN archive_files :
          \E i \in 1..Len(archive_files[ym]) :
             archive_files[ym][i].as_of_date = Some(LastDay - 730)
    /\ \E i \in 1..Len(Snapshot) :
          /\ Snapshot[i].metric_key = "dyn_small" /\ Snapshot[i].as_of_date = LastDay
          /\ Snapshot[i].window_days = 1 /\ RatEqInt(Val(Snapshot[i].value), 20)
          /\ Snapshot[i].threshold_result.seasonal_points_used = 1
          /\ IsNone(Snapshot[i].threshold_result.seasonal_zscore)


\* a step of the stepwise retention pass that rewrites the history file
RewroteHistory == pc = "archive" /\ history_csv' # history_csv

\* row r is in a monthly archive partition
InArchive(files, r) == \E ym \in DOMAIN files : \E i \in 1..Len(files[ym]) : files[ym][i] = r

\* row r is in the history file
InStore(file, r) == \E i \in 1..Len(RowsOf(file)) : RowsOf(file)[i] = r

\* C26: in a retention pass with an archive target every monthly partition
\* is written before the history store is rewritten with the kept rows, so
\* at every intermediate point of the pass, and after it, each row with a
\* parseable date that was in the store at the start (the rows the pass was
\* given) is in the store or in an archive partition.
C26_ArchiveWrittenBeforeStoreRewritten ==
    /\ []((pc = "archive" /\ args.history_archive_dir) =>
            /\ RowsOf(history_csv) = history_df
            /\ \A i \in 1..Len(history_df) :
                  NotNone(history_df[i].as_of_date) =>
                     \/ InStore(history_csv, history_df[i])
                     \/ InArchive(archive_files, history_df[i]))
    /\ [][(RewroteHistory /\ args.history_archive_dir) =>
            /\ Len(archive_rows) = 0
            /\ \A i \in 1..Len(history_df) :
                  NotNone(history_df[i].as_of_date) =>
                     \/ InStore(history_csv', history_df[i])
                     \/ InArchive(archive_files', history_df[i])]_vars

\* between two partition writes: one month of the pass is archived, another
\* is pending and the history store is not yet rewritten
C26_Witness ==
    /\ pc = "archive" /\ args.history_archive_dir
    /\ Len(archive_rows) > 0
    /\ \E i \in 1..Len(history_df) :
          /\ NotNone(history_df[i].as_of_date)
          /\ \A j \in 1..Len(keep_rows) : keep_rows[j] # history_df[i]
          /\ \A j \in 1..Len(archive_rows) : archive_rows[j] # history_df[i]
          /\ InArchive(archive_files, history_df[i])
          /\ InStore(history_csv, history_df[i])


\* run p completes its write and no other run has the file open
WroteLast(p) ==
    /\ refresh[p].pc = "opened" /\ refresh'[p].pc = "done"
    /\ \A q \in Refreshes : refresh'[q].pc # "opened"

\* C25 as stated: when two refresh runs interleave on the same history
\* store, the final store is exactly the content written by the last
\* writer: it has no duplicate natural keys and is never a mixture of the
\* two writes.
C25_LastWriterWins ==
    [][\A p \in Refreshes :
          WroteLast(p) =>
             /\ RowsOf(history_csv') = refresh[p].all_df
             /\ NoDuplicateKeys(RowsOf(history_csv'))]_vars

====
